---- MODULE Spec2Model ----
(***************************************************************************)
(* A model of the SevenTech automation platform:                           *)
(*   - the interactive mapping session state machine (MapperSession,       *)
(*     ParameterCollector), the SessionManager registry and the API        *)
(*     handlers that drive them on one asyncio event loop;                 *)
(*   - the Planner, which compiles a recorded trace into a plan.           *)
(* Every action is one run of a handler between two suspension points of   *)
(* the event loop.                                                         *)
(***************************************************************************)
EXTENDS Integers, Sequences, FiniteSets, TLC

\* ------------------------------------------------------------------ bounds
\* Number of request_input calls (futures) made in a behaviour.
MaxWaits == 2

\* Two sessions, the least that can interfere with each other.
SessionIds == {1, 2}
WaitIds == 1..MaxWaits

\* Python's None, for optional strings.
None == "None"

\* Inputs the agent and the API client choose.
\* (field_name, xpath) pairs of ask_user_for_input: xpath defaults to ''.
AskArgs == {<<"cpf", "//input[@id='cpf']">>, <<"email", "">>}
InputValues == {"v1", "v2"}

\* SessionStatus (mapper/session.py), plus "absent" for an id no session
\* object was constructed for yet.
INITIALIZED == "initialized"
RUNNING == "running"
WAITING_FOR_INPUT == "waiting_for_input"
COMPLETED == "completed"
FAILED == "failed"
CANCELLED == "cancelled"
SessionStatus == {INITIALIZED, RUNNING, WAITING_FOR_INPUT, COMPLETED, FAILED, CANCELLED}
Terminal == {COMPLETED, FAILED, CANCELLED}

VARIABLES
    \* SessionManager
    sessions,               \* keys of SessionManager.sessions
    pending_inputs,         \* session id -> 0 (no entry) or the wait whose request and future it holds
    mapper_results,         \* session id -> "none" | "success" | "failure"
    \* MapperSession objects, by session id (an object outlives its registry entry)
    status,
    collector,              \* ParameterCollector.parameters, in insertion order
    current_input_request,  \* <<>> (None) or <<the InputRequest>>
    on_input_needed,        \* whether the input callback is set
    steps_completed,
    error_message,
    \* one record per request_input call: its InputRequest, its future, its coroutine
    waits,
    \* the run_mapper task of each session
    task,
    \* Planner: the inputs of create_plan and its result
    mapper_result,          \* <<>> or <<the MapperResult create_plan is called with>>
    planner_pc,             \* "idle" | "called" | "returned" | "raised_ValueError"
    plan,                   \* <<>> or <<the Plan create_plan returned>>
    enriched_location,      \* <<>> or <<result_location of _extract_steps after line 110>>
    \* Executor: one call of execute_plan
    exec_pc,                \* the await execute_plan is suspended at, "idle" or "ended"
    config,                 \* <<>> or <<the ExecutorConfig of the call>>
    exec_plan,              \* plan.steps
    total_steps,            \* len(plan.steps)
    step_index,             \* position of the loop of _execute_steps
    exec_completed,         \* steps_completed of _execute_steps
    exec_artifacts,         \* artifacts of _execute_steps
    calls,                  \* <<>> or <<what the calls of the last attempt did>>
    attempts,               \* calls of _execute_action so far
    stop_calls,             \* calls of browser.stop() so far
    exec_result,            \* <<>>, <<the ExecutionResult returned>> or <<the exception raised>>
    resolved,               \* <<>> or <<what the last attempt of a Click step resolved with>>
    \* Executor._find_element: one call
    find_pc,                \* "idle" | "called" | "returned" | "raised_ValueError"
    find_params,            \* <<>> or <<the params of the call>>
    find_map,               \* state.dom_state.selector_map, as its items() in order
    find_result,            \* <<>>, <<the node returned>> or <<the message of the ValueError>>
    \* Executor._inject_params: one call
    inject_pc,              \* "idle" | "called" | "returned" | "called_again" | "returned_again"
    inject_step_params,     \* step_params
    inject_user_params,     \* user_params, a function of the names supplied
    injected,               \* <<>> or <<the dict returned>>
    \* one ParameterCollector
    collector_parameters,   \* self.parameters, as its values() in order
    collector_count,       \* self.collection_count
    collect_call            \* <<>> or <<the arguments of the last collect call>>

sessionVars == <<sessions, pending_inputs, mapper_results, status, collector,
                 current_input_request, on_input_needed, steps_completed,
                 error_message, waits, task>>
plannerVars == <<mapper_result, planner_pc, plan, enriched_location>>
executorVars == <<exec_pc, config, exec_plan, total_steps, step_index, exec_completed,
                  exec_artifacts, attempts, calls, stop_calls, exec_result, resolved>>
resolverVars == <<find_pc, find_params, find_map, find_result>>
injectorVars == <<inject_pc, inject_step_params, inject_user_params, injected>>
collectorVars == <<collector_parameters, collector_count, collect_call>>
nonSessionVars == <<plannerVars, executorVars, resolverVars, injectorVars, collectorVars>>
nonPlannerVars == <<sessionVars, executorVars, resolverVars, injectorVars, collectorVars>>
nonExecutorVars == <<sessionVars, plannerVars, resolverVars, injectorVars, collectorVars>>
nonResolverVars == <<sessionVars, plannerVars, executorVars, injectorVars, collectorVars>>
nonInjectorVars == <<sessionVars, plannerVars, executorVars, resolverVars, collectorVars>>
nonCollectorVars == <<sessionVars, plannerVars, executorVars, resolverVars, injectorVars>>
vars == <<sessionVars, plannerVars, executorVars, resolverVars, injectorVars, collectorVars>>

\* ------------------------------------------------------- ParameterCollector

\* ParameterCollector.collect: parameters[name] = param. A dict keeps the
\* position of a key that is assigned again.
collect(parameters, name, value, xpath, step_number) ==
    LET param == [name |-> name, value |-> value, xpath |-> xpath,
                  collected_at_step |-> step_number]
    IN IF \E i \in DOMAIN parameters : parameters[i].name = name
       THEN [i \in DOMAIN parameters |->
                IF parameters[i].name = name THEN param ELSE parameters[i]]
       ELSE Append(parameters, param)

\* ParameterCollector.get_parameter
get_parameter(parameters, name) ==
    SelectSeq(parameters, LAMBDA p : p.name = name)

\* ParameterCollector.list_parameters: list(self.parameters.values())
list_parameters(parameters) == parameters

\* ------------------------------------------------------------ MapperSession

\* The waits of session s whose coroutine is still suspended on its future.
Outstanding(s) ==
    {w \in DOMAIN waits : waits[w].sid = s /\ waits[w].pc = "awaiting"}

\* MapperSession.set_status (on_status_change is never set in the repository)
set_status(s, st) == status' = [status EXCEPT ![s] = st]

\* ask_user_for_input passes "xpath or None"
XPathOrNone(x) == IF x = "" THEN None ELSE x

\* MapperSession.__init__, through SessionManager.create_session
create_session(s) ==
    /\ sessions' = sessions \cup {s}
    /\ status' = [status EXCEPT ![s] = INITIALIZED]
    /\ collector' = [collector EXCEPT ![s] = <<>>]
    /\ current_input_request' = [current_input_request EXCEPT ![s] = <<>>]
    /\ on_input_needed' = [on_input_needed EXCEPT ![s] = FALSE]
    /\ steps_completed' = [steps_completed EXCEPT ![s] = 0]
    /\ error_message' = [error_message EXCEPT ![s] = None]

\* POST /mapping/start: a fresh uuid7 id, create_session, and the run_mapper
\* task is scheduled; it starts at a later turn of the event loop.
start_mapping(s) ==
    /\ status[s] = "absent"
    /\ \A t \in SessionIds : t < s => status[t] # "absent"
    /\ create_session(s)
    /\ task' = [task EXCEPT ![s] = "scheduled"]
    /\ UNCHANGED <<pending_inputs, mapper_results, waits>>
    /\ UNCHANGED nonSessionVars

\* run_mapper up to agent.run(): the callback is set, map_objective is
\* entered with the existing session and sets the status to RUNNING.
run_mapper(s) ==
    /\ task[s] = "scheduled"
    /\ on_input_needed' = [on_input_needed EXCEPT ![s] = TRUE]
    /\ set_status(s, RUNNING)
    /\ task' = [task EXCEPT ![s] = "running"]
    /\ UNCHANGED <<sessions, pending_inputs, mapper_results, collector,
                   current_input_request, steps_completed, error_message, waits>>
    /\ UNCHANGED nonSessionVars

\* InputRequest(...) as request_input builds it (request_id: the wait's number).
InputRequest(w, s, field_name, xpath) ==
    [request_id |-> w, field_name |-> field_name, xpath |-> xpath,
     current_step |-> steps_completed[s]]

\* The coroutine of a new request_input call (its arguments) and its future.
NewWait(s, field_name, xpath) ==
    [sid |-> s, field_name |-> field_name, xpath |-> xpath,
     fut |-> "pending", value |-> None, pc |-> "awaiting"]

\* A coroutine that has ended: its frame and its future are gone; value is
\* what it returned to its caller (None when it raised).
EndWait(w, pc, returned) ==
    [sid |-> waits[w].sid, field_name |-> None, xpath |-> None,
     fut |-> waits[w].fut, value |-> returned, pc |-> pc]

\* SessionManager.request_input up to its await: a future is created and the
\* pending entry of the session id is (over)written.
RegisterPending(s, w) == [pending_inputs EXCEPT ![s] = w]

\* MapperSession.request_input up to the await of the callback, which is
\* SessionManager.request_input up to the await of its future.
request_input(s, field_name, xpath_arg) ==
    LET w == Len(waits) + 1 IN
    /\ Len(waits) < MaxWaits
    /\ current_input_request' =
          [current_input_request EXCEPT
              ![s] = <<InputRequest(w, s, field_name, XPathOrNone(xpath_arg))>>]
    /\ set_status(s, WAITING_FOR_INPUT)
    /\ IF on_input_needed[s]
       THEN /\ waits' = Append(waits, NewWait(s, field_name, XPathOrNone(xpath_arg)))
            /\ pending_inputs' = RegisterPending(s, w)
       ELSE \* RuntimeError('No input callback configured'): raised outside the try
            /\ waits' = Append(waits, [sid |-> s, field_name |-> None, xpath |-> None,
                                        fut |-> "none", value |-> None,
                                        pc |-> "raised_runtime"])
            /\ pending_inputs' = pending_inputs
    /\ UNCHANGED <<sessions, mapper_results, collector, on_input_needed,
                   steps_completed, error_message, task>>
    /\ UNCHANGED nonSessionVars

\* The agent calls ask_user_for_input; it awaits each tool call before the
\* next one, so no earlier request of the session is outstanding.
ask_user_for_input(s, field_name, xpath_arg) ==
    /\ task[s] = "running"
    /\ Outstanding(s) = {}
    /\ request_input(s, field_name, xpath_arg)

\* A caller that issues a request while an earlier one of the same session is
\* still awaited (nothing in request_input prevents it).
ask_while_pending(s, field_name, xpath_arg) ==
    /\ task[s] = "running"
    /\ Outstanding(s) # {}
    /\ request_input(s, field_name, xpath_arg)

\* provide_input without "if not pending.response_future.done()".
SetResult_NoDoneCheck(s, value) ==
    LET w == pending_inputs[s] IN
    IF w # 0
    THEN [waits EXCEPT ![w].fut = "result", ![w].value = value]
    ELSE waits

\* SessionManager.provide_input: what it does to the futures, and what it returns.
SetResult(s, value) ==
    LET w == pending_inputs[s] IN
    IF w # 0 /\ waits[w].fut = "pending"
    THEN [waits EXCEPT ![w].fut = "result", ![w].value = value]
    ELSE waits

ProvideAccepted(s) ==
    /\ pending_inputs[s] # 0
    /\ waits[pending_inputs[s]].fut = "pending"

\* POST /mapping/sessions/{id}/input: 404 for an unknown session, else
\* SessionManager.provide_input; 400 when that returns False.
provide_input(s, value) ==
    /\ status[s] # "absent"
    /\ IF s \in sessions
       THEN /\ waits' = SetResult(s, value)
       ELSE /\ waits' = waits
    /\ UNCHANGED <<sessions, pending_inputs, mapper_results, status, collector,
                   current_input_request, on_input_needed, steps_completed,
                   error_message, task>>
    /\ UNCHANGED nonSessionVars

\* wait_for without a deadline: the pending future is left alone.
timeout_NoDeadline(w) ==
    /\ w \in DOMAIN waits
    /\ waits[w].pc = "awaiting"
    /\ waits[w].fut = "pending"
    /\ UNCHANGED vars

\* asyncio.wait_for(response_future, timeout=300): the timeout elapses while
\* the future is pending, and wait_for cancels it.
timeout(w) ==
    /\ w \in DOMAIN waits
    /\ waits[w].pc = "awaiting"
    /\ waits[w].fut = "pending"
    /\ waits' = [waits EXCEPT ![w].fut = "timeout"]
    /\ UNCHANGED <<sessions, pending_inputs, mapper_results, status, collector,
                   current_input_request, on_input_needed, steps_completed,
                   error_message, task>>
    /\ UNCHANGED nonSessionVars

\* CollectInput without the request's xpath.
CollectInput_NoXPath(s, w) ==
    collect(collector[s], waits[w].field_name, waits[w].value, None, steps_completed[s])

\* MapperSession.request_input after its await returned a value:
\* self.collector.collect(name, value, xpath, step_number=self.steps_completed).
CollectInput(s, w) ==
    collect(collector[s], waits[w].field_name, waits[w].value, waits[w].xpath,
            steps_completed[s])

\* The coroutine of wait w runs again once its future is done.
\* SessionManager.request_input: return the value, or raise TimeoutError, or
\* let CancelledError through; finally pop the session's pending entry.
\* MapperSession.request_input: on a value collect it and return to RUNNING;
\* "except Exception" marks the session FAILED and re-raises; CancelledError
\* is no Exception and passes through untouched.
resume(w) ==
    /\ w \in DOMAIN waits
    /\ waits[w].pc = "awaiting"
    /\ waits[w].fut # "pending"
    /\ LET s == waits[w].sid IN
       /\ pending_inputs' = [pending_inputs EXCEPT ![s] = 0]
       /\ CASE waits[w].fut = "result" ->
                 /\ collector' = [collector EXCEPT ![s] = CollectInput(s, w)]
                 /\ current_input_request' = [current_input_request EXCEPT ![s] = <<>>]
                 /\ set_status(s, RUNNING)
                 /\ error_message' = error_message
                 /\ waits' = [waits EXCEPT ![w] = EndWait(w, "returned", waits[w].value)]
                 /\ task' = task
            [] waits[w].fut = "timeout" ->
                 /\ set_status(s, FAILED)
                 /\ error_message' = [error_message EXCEPT ![s] = "Input request timed out"]
                 /\ waits' = [waits EXCEPT ![w] = EndWait(w, "raised_timeout", None)]
                 /\ task' = task
                 /\ UNCHANGED <<collector, current_input_request>>
            [] waits[w].fut = "cancelled" ->
                 /\ waits' = [waits EXCEPT ![w] = EndWait(w, "raised_cancelled", None)]
                 /\ task' = [task EXCEPT ![s] = "tool_cancelled"]
                 /\ UNCHANGED <<status, error_message, collector, current_input_request>>
    /\ UNCHANGED <<sessions, mapper_results, on_input_needed, steps_completed>>
    /\ UNCHANGED nonSessionVars

\* SessionManager.cancel_session, as it acts on the futures: the pending
\* future of the session is cancelled unless it is done.
\* CancelPending reaching the futures of every session.
CancelPending_All(s) ==
    [w \in DOMAIN waits |->
        IF waits[w].fut = "pending" THEN [waits[w] EXCEPT !.fut = "cancelled"] ELSE waits[w]]

CancelPending(s) ==
    LET w == pending_inputs[s] IN
    IF w # 0 /\ waits[w].fut = "pending"
    THEN [waits EXCEPT ![w].fut = "cancelled"]
    ELSE waits

\* POST /mapping/sessions/{id}/cancel -> SessionManager.cancel_session:
\* MapperSession.cancel sets the status, whatever it was.
cancel_session(s) ==
    /\ status[s] # "absent"
    /\ IF s \in sessions
       THEN /\ set_status(s, CANCELLED)
            /\ waits' = CancelPending(s)
       ELSE /\ UNCHANGED <<status, waits>>
    /\ UNCHANGED <<sessions, pending_inputs, mapper_results, collector,
                   current_input_request, on_input_needed, steps_completed,
                   error_message, task>>
    /\ UNCHANGED nonSessionVars

\* DELETE /mapping/sessions/{id} -> SessionManager.delete_session: the three
\* registry entries go; the session object, its task and its future stay.
delete_session(s) ==
    /\ status[s] # "absent"
    /\ IF s \in sessions
       THEN /\ sessions' = sessions \ {s}
            /\ pending_inputs' = [pending_inputs EXCEPT ![s] = 0]
            /\ mapper_results' = [mapper_results EXCEPT ![s] = "none"]
       ELSE /\ UNCHANGED <<sessions, pending_inputs, mapper_results>>
    /\ UNCHANGED <<status, collector, current_input_request, on_input_needed,
                   steps_completed, error_message, waits, task>>
    /\ UNCHANGED nonSessionVars

\* map_objective after agent.run() returned: session.complete(), the result
\* is built and saved to a file; run_mapper stores it. If saving raises,
\* "except Exception" calls session.fail and a failure result is stored.
agent_finished(s, saved) ==
    /\ task[s] = "running"
    /\ Outstanding(s) = {}
    /\ current_input_request' = [current_input_request EXCEPT ![s] = <<>>]
    /\ IF saved
       THEN /\ set_status(s, COMPLETED)
            /\ error_message' = error_message
            /\ mapper_results' = [mapper_results EXCEPT ![s] = "success"]
       ELSE /\ set_status(s, FAILED)
            /\ error_message' = [error_message EXCEPT ![s] = "save failed"]
            /\ mapper_results' = [mapper_results EXCEPT ![s] = "failure"]
    /\ task' = [task EXCEPT ![s] = "finished"]
    /\ UNCHANGED <<sessions, pending_inputs, collector, on_input_needed,
                   steps_completed, waits>>
    /\ UNCHANGED nonSessionVars

\* map_objective when agent.run() raises an Exception (its own, or one a tool
\* call raised into it): session.fail(str(e)), a failure result is stored.
agent_raised(s) ==
    /\ task[s] = "running"
    /\ Outstanding(s) = {}
    /\ error_message' = [error_message EXCEPT ![s] = "agent error"]
    /\ set_status(s, FAILED)
    /\ mapper_results' = [mapper_results EXCEPT ![s] = "failure"]
    /\ task' = [task EXCEPT ![s] = "finished"]
    /\ UNCHANGED <<sessions, pending_inputs, collector, current_input_request,
                   on_input_needed, steps_completed, waits>>
    /\ UNCHANGED nonSessionVars

\* A CancelledError raised into the agent by a tool call either leaves
\* agent.run(), map_objective and run_mapper (none catches a BaseException),
\* which ends the task and touches nothing, or the agent turns it into a failed
\* tool call and goes on.
task_cancelled(s) ==
    /\ task[s] = "tool_cancelled"
    /\ task' = [task EXCEPT ![s] = "dead"]
    /\ UNCHANGED <<sessions, pending_inputs, mapper_results, status, collector,
                   current_input_request, on_input_needed, steps_completed,
                   error_message, waits>>
    /\ UNCHANGED nonSessionVars

agent_continues(s) ==
    /\ task[s] = "tool_cancelled"
    /\ task' = [task EXCEPT ![s] = "running"]
    /\ UNCHANGED <<sessions, pending_inputs, mapper_results, status, collector,
                   current_input_request, on_input_needed, steps_completed,
                   error_message, waits>>
    /\ UNCHANGED nonSessionVars

\* ------------------------------------------------------------------ Planner
\* Texts the Planner inspects are sequences of one-character strings, so
\* that its regular expressions and its placeholder formatting are computed.

Digits == {"0", "1", "2", "3", "4", "5", "6", "7", "8", "9"}
Lower == {"a", "b", "c", "d", "e", "f", "g", "h", "i", "j", "k", "l", "m",
          "n", "o", "p", "q", "r", "s", "t", "u", "v", "w", "x", "y", "z"}
Upper == {"A", "B", "C", "D", "E", "F", "G", "H", "I", "J", "K", "L", "M",
          "N", "O", "P", "Q", "R", "S", "T", "U", "V", "W", "X", "Y", "Z"}
\* \w
WordChars == Digits \cup Lower \cup Upper \cup {"_"}

WordAt(t, i) == i \in 1..Len(t) /\ t[i] \in WordChars
\* \b between t[i] and t[i+1], for i in 0..Len(t)
Boundary(t, i) == WordAt(t, i) # WordAt(t, i + 1)
\* t[lo..hi] lies in the text and in the class cs
AllIn(t, lo, hi, cs) == hi <= Len(t) /\ \A k \in lo..hi : t[k] \in cs
\* \d{n} after position i
DigitsAt(t, i, n) == AllIn(t, i + 1, i + n, Digits)
\* positions after an optional character of cs that follows position i
OptChar(t, i, cs) ==
    {i} \cup (IF i + 1 <= Len(t) /\ t[i + 1] \in cs THEN {i + 1} ELSE {})

\* r'\b\d{3}[-.]?\d{3}[-.]?\d{4}\b'
PhonePattern(t) ==
    \E i \in 0..Len(t) :
        /\ Boundary(t, i) /\ DigitsAt(t, i, 3)
        /\ \E j \in OptChar(t, i + 3, {"-", "."}) :
              /\ DigitsAt(t, j, 3)
              /\ \E k \in OptChar(t, j + 3, {"-", "."}) :
                    DigitsAt(t, k, 4) /\ Boundary(t, k + 4)

\* r'\b[A-Za-z0-9._%+-]+@[A-Za-z0-9.-]+\.[A-Z|a-z]{2,}\b'
EmailPattern(t) ==
    LET local == Lower \cup Upper \cup Digits \cup {".", "_", "%", "+", "-"}
        domain == Lower \cup Upper \cup Digits \cup {".", "-"}
        tld == Lower \cup Upper \cup {"|"}
    IN \E a \in 1..Len(t) :
          /\ a < Len(t) /\ t[a + 1] = "@"
          /\ \E i \in 0..(a - 1) : Boundary(t, i) /\ AllIn(t, i + 1, a, local)
          /\ \E b \in (a + 2)..Len(t) :
                /\ b < Len(t) /\ t[b + 1] = "." /\ AllIn(t, a + 2, b, domain)
                /\ \E c \in (b + 3)..Len(t) :
                      AllIn(t, b + 2, c, tld) /\ Boundary(t, c)

\* r'\b\d{3}\.?\d{3}\.?\d{3}-?\d{2}\b'
CpfPattern(t) ==
    \E i \in 0..Len(t) :
        /\ Boundary(t, i) /\ DigitsAt(t, i, 3)
        /\ \E j \in OptChar(t, i + 3, {"."}) :
              /\ DigitsAt(t, j, 3)
              /\ \E k \in OptChar(t, j + 3, {"."}) :
                    /\ DigitsAt(t, k, 3)
                    /\ \E m \in OptChar(t, k + 3, {"-"}) :
                          DigitsAt(t, m, 2) /\ Boundary(t, m + 2)

\* r'\b\d{5}-?\d{3}\b'
CepPattern(t) ==
    \E i \in 0..Len(t) :
        /\ Boundary(t, i) /\ DigitsAt(t, i, 5)
        /\ \E j \in OptChar(t, i + 5, {"-"}) :
              DigitsAt(t, j, 3) /\ Boundary(t, j + 3)

\* Planner._should_parameterize: re.search of the four patterns.
_should_parameterize(text) ==
    PhonePattern(text) \/ EmailPattern(text) \/ CpfPattern(text) \/ CepPattern(text)

\* f'{{param:{param_name}}}'
ParamOpen == <<"{", "p", "a", "r", "a", "m", ":">>
Placeholder(param_name) == ParamOpen \o param_name \o <<"}">>

\* re.findall(r'\{param:(\w+)\}', value), as the set of the names found.
PlaceholderNames(value) ==
    {SubSeq(value, p[1] + 7, p[2]) : p \in
        {p \in (1..Len(value)) \X (1..Len(value)) :
            /\ p[1] + 7 <= p[2]
            /\ p[2] < Len(value)
            /\ SubSeq(value, p[1], p[1] + 6) = ParamOpen
            /\ AllIn(value, p[1] + 7, p[2], WordChars)
            /\ value[p[2] + 1] = "}"}}

\* Whether the characters of key stand in t from position i on.
StartsAt(t, i, key) == i + Len(key) - 1 <= Len(t) /\ SubSeq(t, i, i + Len(key) - 1) = key
Contains(t, key) == \E i \in 1..Len(t) : StartsAt(t, i, key)

\* re.search(key + r"'([^']+)'", xpath): the matches, as <<start, end of group>>.
AttrMatches(xpath, key) ==
    {p \in (1..Len(xpath)) \X (1..Len(xpath)) :
        /\ StartsAt(xpath, p[1], key \o <<"'">>)
        /\ p[1] + Len(key) + 1 <= p[2]
        /\ p[2] < Len(xpath)
        /\ \A k \in (p[1] + Len(key) + 1)..p[2] : xpath[k] # "'"
        /\ xpath[p[2] + 1] = "'"}

\* group(1) of the leftmost match
AttrValue(xpath, key) ==
    LET first == CHOOSE p \in AttrMatches(xpath, key) :
                    \A q \in AttrMatches(xpath, key) : p[1] <= q[1]
    IN SubSeq(xpath, first[1] + Len(key) + 1, first[2])

IdKey == <<"i", "d", "=">>
NameKey == <<"n", "a", "m", "e", "=">>
UserInput == <<"u", "s", "e", "r", "_", "i", "n", "p", "u", "t">>

\* Planner._extract_param_name
_extract_param_name(xpath) ==
    IF Contains(xpath, IdKey) /\ AttrMatches(xpath, IdKey) # {}
    THEN AttrValue(xpath, IdKey)
    ELSE IF Contains(xpath, NameKey) /\ AttrMatches(xpath, NameKey) # {}
    THEN AttrValue(xpath, NameKey)
    ELSE UserInput

\* ActionType (shared_views.py)
GOTO == "goto"
CLICK == "click"
INPUT == "input"
SELECT == "select"
SCROLL == "scroll"
WAIT == "wait"
EXTRACT == "extract"
SCREENSHOT == "screenshot"

\* action_mapping of Planner._convert_action_to_step
action_mapping ==
    [navigate |-> GOTO, click |-> CLICK, input |-> INPUT, select |-> SELECT,
     scroll |-> SCROLL, wait |-> WAIT, extract |-> EXTRACT, screenshot |-> SCREENSHOT]

\* An Optional value: <<>> is None, <<x>> is x.
Some(x) == <<x>>
Absent == <<>>
OrElse(opt, default) == IF opt = <<>> THEN default ELSE opt[1]

\* Planner._find_parameter_by_value: the name of the first collected
\* parameter whose value is the text, or None.
_find_parameter_by_value(value, collected_params) ==
    LET parameters_list == collected_params.parameters
        hits == {i \in DOMAIN parameters_list : parameters_list[i].value = value}
    IN IF value = <<>> \/ hits = {}
       THEN Absent
       ELSE Some(parameters_list[CHOOSE i \in hits : \A k \in hits : i <= k].name)

\* Planner._convert_params. A key the recorded action lacks is read with the
\* default of its .get().
_convert_params(action_type, original_params, collected_params, result_location) ==
    CASE action_type = GOTO -> [url |-> original_params.url]
      [] action_type = CLICK ->
            [index |-> OrElse(original_params.index, 0), xpath |-> original_params.xpath]
      [] action_type = INPUT ->
            LET text == original_params.text
                param_name == _find_parameter_by_value(text, collected_params)
            IN IF param_name # Absent
               THEN [index |-> OrElse(original_params.index, 0),
                     xpath |-> original_params.xpath,
                     text |-> Placeholder(param_name[1]),
                     is_parameterized |-> TRUE]
               ELSE [index |-> OrElse(original_params.index, 0),
                     xpath |-> original_params.xpath,
                     text |-> text,
                     is_parameterized |-> _should_parameterize(text)]
      [] action_type = SELECT ->
            [index |-> OrElse(original_params.index, 0), value |-> original_params.value,
             xpath |-> original_params.xpath]
      [] action_type = SCROLL ->
            [direction |-> OrElse(original_params.direction, "down"),
             amount |-> OrElse(original_params.amount, 500)]
      [] action_type = WAIT -> [duration_ms |-> OrElse(original_params.duration, 1000)]
      [] action_type = EXTRACT ->
            IF result_location # Absent
            THEN [query |-> IF original_params.query # ""
                            THEN original_params.query
                            ELSE result_location[1].description,
                  is_final_result |-> TRUE]
            ELSE [query |-> original_params.query, is_final_result |-> FALSE]
      [] action_type = SCREENSHOT -> [full_page |-> original_params.full_page]

\* Planner._convert_action_to_step: None for an empty action, for
\* mark_result_location and for a name action_mapping does not have.
_convert_action_to_step(action, sequence_id, collected_params, result_location) ==
    IF action.name = "" \/ action.name = "mark_result_location"
          \/ action.name \notin DOMAIN action_mapping
    THEN Absent
    ELSE Some([sequence_id |-> sequence_id,
               action |-> action_mapping[action.name],
               params |-> _convert_params(action_mapping[action.name], action.params,
                                          collected_params, result_location),
               original_action |-> action.name,
               original_params |-> action.params])

\* The xpath of the first action of the item that used the index and has one.
ActionXPath(item, target_index) ==
    LET actions == IF item.model_output = Absent THEN <<>> ELSE item.model_output[1].action
        hits == {k \in DOMAIN actions :
                    /\ actions[k].name # ""
                    /\ actions[k].params.index = Some(target_index)
                    /\ actions[k].params.xpath # <<>>}
    IN IF hits = {} THEN Absent
       ELSE Some(actions[CHOOSE k \in hits : \A m \in hits : k <= m].params.xpath)

\* The rich context copied from node_info, a snapshot's entry for the index.
FromNode(enriched, node_info) ==
    LET text_content ==
            IF node_info.value # "" THEN node_info.value
            ELSE IF node_info.innerText # "" THEN node_info.innerText
            ELSE IF node_info.textContent # "" THEN node_info.textContent
            ELSE node_info.node_value
        attrs == node_info.attributes
    IN [enriched EXCEPT
          !.xpath = IF node_info.xpath # <<>> THEN Some(node_info.xpath) ELSE @,
          !.text_content = IF text_content # "" THEN Some(text_content) ELSE @,
          !.element_id = IF attrs # Absent /\ attrs[1].id # "" THEN Some(attrs[1].id) ELSE @,
          !.element_class =
              IF attrs # Absent /\ attrs[1].class # "" THEN Some(attrs[1].class) ELSE @,
          !.element_name =
              IF attrs # Absent /\ attrs[1].name # "" THEN Some(attrs[1].name) ELSE @,
          !.tag_name = IF node_info.tag_name # Absent THEN node_info.tag_name ELSE @]

\* The loop of _enrich_result_location_with_xpath from history item i on.
RECURSIVE EnrichFrom(_, _, _)
\* The loop without the return at line 199: it goes on after a snapshot that
\* has the index.
EnrichFrom_LastSnapshot(history, i, enriched) ==
    IF i > Len(history) THEN enriched
    ELSE LET item == history[i]
             target_index == enriched.index[1]
         IN IF item.state # Absent /\ target_index \in DOMAIN item.state[1].selector_map
            THEN EnrichFrom(history, i + 1,
                    FromNode(enriched, item.state[1].selector_map[target_index]))
            ELSE EnrichFrom(history, i + 1,
                    IF enriched.xpath = Absent
                    THEN [enriched EXCEPT !.xpath = ActionXPath(item, target_index)]
                    ELSE enriched)

EnrichFrom(history, i, enriched) ==
    IF i > Len(history) THEN enriched
    ELSE LET item == history[i]
             target_index == enriched.index[1]
         IN IF item.state # Absent /\ target_index \in DOMAIN item.state[1].selector_map
            THEN FromNode(enriched, item.state[1].selector_map[target_index])
            ELSE EnrichFrom(history, i + 1,
                    IF enriched.xpath = Absent
                    THEN [enriched EXCEPT !.xpath = ActionXPath(item, target_index)]
                    ELSE enriched)

\* Planner._enrich_result_location_with_xpath
_enrich_result_location_with_xpath(raw_history, result_location) ==
    IF result_location.index = Absent
    THEN result_location
    ELSE EnrichFrom(raw_history.history, 1, result_location)

\* The actions of the history items that have a model_output, in order.
RECURSIVE HistoryActions(_)
HistoryActions(history) ==
    IF history = <<>> THEN <<>>
    ELSE (IF Head(history).model_output = Absent
          THEN <<>>
          ELSE Head(history).model_output[1].action) \o HistoryActions(Tail(history))

\* The loop of _extract_steps: a converted action takes the next sequence id.
RECURSIVE ConvertActions(_, _, _, _)
\* The loop with sequence_id += 1 moved out of "if step".
ConvertActions_CountSkipped(actions, sequence_id, collected_params, result_location) ==
    IF actions = <<>> THEN <<>>
    ELSE LET step == _convert_action_to_step(Head(actions), sequence_id,
                                             collected_params, result_location)
         IN step \o ConvertActions(Tail(actions), sequence_id + 1,
                                   collected_params, result_location)

ConvertActions(actions, sequence_id, collected_params, result_location) ==
    IF actions = <<>> THEN <<>>
    ELSE LET step == _convert_action_to_step(Head(actions), sequence_id,
                                             collected_params, result_location)
         IN IF step = Absent
            THEN ConvertActions(Tail(actions), sequence_id, collected_params, result_location)
            ELSE step \o ConvertActions(Tail(actions), sequence_id + 1,
                                        collected_params, result_location)

\* _extract_steps, lines 109-110: the result location the steps are made with.
EnrichedLocation(raw_history, result_location) ==
    IF result_location # Absent /\ OrElse(result_location[1].xpath, <<>>) = <<>>
    THEN Some(_enrich_result_location_with_xpath(raw_history, result_location[1]))
    ELSE result_location

\* Planner._extract_steps
_extract_steps(raw_history, collected_params, result_location) ==
    ConvertActions(HistoryActions(raw_history.history), 0, collected_params,
                   EnrichedLocation(raw_history, result_location))

\* Planner._identify_parameters: one name, made from the step's xpath, for
\* every Input step flagged is_parameterized. The caller turns the sorted list
\* into a set, so the names are kept as a set.
_identify_parameters(steps) ==
    {_extract_param_name(steps[k].params.xpath) :
        k \in {k \in DOMAIN steps : steps[k].action = INPUT /\ steps[k].params.is_parameterized}}

\* The lists that list(set(...)) can return: CPython fixes no iteration order
\* for a set of strings.
Orderings(names) ==
    {order \in [1..Cardinality(names) -> names] :
        \A i, j \in 1..Cardinality(names) : order[i] = order[j] => i = j}

\* list(set(auto_detected_params + parameter_names))
RequiredParams(steps, parameter_names) ==
    Orderings(_identify_parameters(steps) \cup {parameter_names[k] : k \in DOMAIN parameter_names})

\* Planner.create_plan
create_plan ==
    /\ planner_pc = "called"
    /\ LET result == mapper_result[1] IN
       IF ~result.success \/ result.raw_history = Absent
       THEN /\ planner_pc' = "raised_ValueError"
            /\ plan' = plan
            /\ enriched_location' = enriched_location
       ELSE LET collected_params == result.metadata.collected_parameters
                parameter_names == result.metadata.parameter_names
                result_location == result.metadata.result_location
                steps == _extract_steps(result.raw_history[1], collected_params,
                                        result_location)
            IN \E required_params \in RequiredParams(steps, parameter_names) :
                  /\ plan' = Some([metadata |->
                                     [required_params |-> required_params,
                                      expected_output |->
                                         IF result_location # Absent
                                         THEN Some(result_location[1].description)
                                         ELSE Absent],
                                   steps |-> steps])
                  /\ enriched_location' = EnrichedLocation(result.raw_history[1],
                                                           result_location)
                  /\ planner_pc' = "returned"
    /\ UNCHANGED mapper_result
    /\ UNCHANGED nonPlannerVars

\* ----------------------------------------------------------- Planner inputs
\* History items of a serialized trace, at most this many.
MaxItems == 2

\* '0.000.001-8', 'a@b.co', '12345-678', '555-123-4567', '123.456.789-01', 'abc'
InscricaoValue == <<"0", ".", "0", "0", "0", ".", "0", "0", "1", "-", "8">>
EmailValue == <<"a", "@", "b", ".", "c", "o">>
CepValue == <<"1", "2", "3", "4", "5", "-", "6", "7", "8">>
PhoneValue == <<"5", "5", "5", "-", "1", "2", "3", "-", "4", "5", "6", "7">>
CpfValue == <<"1", "2", "3", ".", "4", "5", "6", ".", "7", "8", "9", "-", "0", "1">>
PlainValue == <<"a", "b", "c">>

\* "//*[@id='insc']", "//*[@name='q']", '' (no xpath recorded)
InscXPath == <<"/", "/", "*", "[", "@", "i", "d", "=", "'", "i", "n", "s", "c", "'", "]">>
QueryXPath == <<"/", "/", "*", "[", "@", "n", "a", "m", "e", "=", "'", "q", "'", "]">>
ResultXPath == <<"/", "/", "t", "d", "[", "2", "]">>
LaterXPath == <<"/", "/", "s", "p", "a", "n">>

\* 'inscricao', 'email'
Inscricao == <<"i", "n", "s", "c", "r", "i", "c", "a", "o">>
Email == <<"e", "m", "a", "i", "l">>

\* The parameters of a recorded action; a key the action lacks holds the
\* default its .get() reads ('' or None).
NoParams ==
    [index |-> Absent, text |-> <<>>, xpath |-> <<>>, url |-> "", query |-> "",
     value |-> "", direction |-> Absent, amount |-> Absent, duration |-> Absent,
     full_page |-> FALSE]

InputAction(index, text, xpath) ==
    [name |-> "input",
     params |-> [NoParams EXCEPT !.index = Some(index), !.text = text, !.xpath = xpath]]

SampleInputs ==
    {InputAction(3, InscricaoValue, InscXPath),
     InputAction(3, InscricaoValue, <<>>),
     InputAction(4, EmailValue, QueryXPath),
     InputAction(4, EmailValue, <<>>),
     InputAction(5, CepValue, InscXPath),
     InputAction(5, PhoneValue, QueryXPath),
     InputAction(5, CpfValue, <<>>),
     InputAction(6, PlainValue, InscXPath),
     InputAction(6, <<>>, QueryXPath)}

SampleActions ==
    SampleInputs \cup
    {[name |-> "navigate", params |-> [NoParams EXCEPT !.url = "https://x"]],
     [name |-> "click", params |-> [NoParams EXCEPT !.index = Some(7), !.xpath = ResultXPath]],
     [name |-> "extract", params |-> NoParams],
     [name |-> "extract", params |-> [NoParams EXCEPT !.query = "iptu"]],
     [name |-> "wait", params |-> [NoParams EXCEPT !.duration = Some(2000)]],
     [name |-> "mark_result_location", params |-> [NoParams EXCEPT !.index = Some(7)]],
     [name |-> "done", params |-> NoParams]}

\* model_output: None, one action, or two actions of one agent step.
SampleOutputs ==
    {Absent}
    \cup {Some([action |-> <<a>>]) : a \in SampleActions}
    \cup {Some([action |-> <<InputAction(3, InscricaoValue, InscXPath),
                            InputAction(4, EmailValue, QueryXPath)>>])}

\* state: None, or a snapshot whose selector_map has the element 7, as it was
\* when first seen or as it is after the page changed, or has another element.
ResultNode ==
    [xpath |-> ResultXPath, value |-> "", innerText |-> "R$ 10", textContent |-> "",
     node_value |-> "", attributes |-> Some([id |-> "total", class |-> "", name |-> ""]),
     tag_name |-> Some("td")]
LaterNode ==
    [xpath |-> LaterXPath, value |-> "", innerText |-> "", textContent |-> "R$ 20",
     node_value |-> "", attributes |-> Some([id |-> "", class |-> "sum", name |-> ""]),
     tag_name |-> Some("span")]
SampleStates ==
    {Absent,
     Some([selector_map |-> (7 :> ResultNode)]),
     Some([selector_map |-> (7 :> LaterNode)]),
     Some([selector_map |-> (3 :> LaterNode)])}

SampleItems == [state : SampleStates, model_output : SampleOutputs]

SampleHistories ==
    UNION {[1..n -> SampleItems] : n \in 0..MaxItems}

\* ParameterCollector.to_dict() of the session, and its get_parameter_names().
SampleCollected ==
    {<<>>,
     <<[name |-> Inscricao, value |-> InscricaoValue]>>,
     <<[name |-> Email, value |-> EmailValue]>>,
     <<[name |-> Inscricao, value |-> InscricaoValue], [name |-> Email, value |-> EmailValue]>>,
     \* the user answered with the empty string
     <<[name |-> Inscricao, value |-> <<>>]>>,
     \* two parameters with one value
     <<[name |-> Inscricao, value |-> EmailValue], [name |-> Email, value |-> EmailValue]>>}

\* count is collection_count, the number of collect() calls.
to_dict(parameters, collection_count) ==
    [parameters |-> parameters, count |-> collection_count]
get_parameter_names(parameters) == [k \in DOMAIN parameters |-> parameters[k].name]

\* session.result_location: None, or what mark_result_location stored.
SampleLocations ==
    {Absent,
     Some([index |-> Some(7), description |-> "valor", xpath |-> Absent,
           text_content |-> Absent, element_id |-> Absent, element_class |-> Absent,
           element_name |-> Absent, tag_name |-> Absent])}

\* MapperResult of a finished mapping (interactive.py, _save_mapper_result).
MapperResult(success, raw_history, parameters, result_location) ==
    [success |-> success,
     raw_history |-> raw_history,
     metadata |-> [collected_parameters |-> to_dict(parameters, Len(parameters)),
                   parameter_names |-> get_parameter_names(parameters),
                   result_location |-> result_location]]

MapperResults ==
    {MapperResult(TRUE, Some([history |-> h]), c, l) :
        h \in SampleHistories, c \in SampleCollected, l \in SampleLocations}
    \cup {MapperResult(FALSE, Absent, c, Absent) : c \in SampleCollected}
    \cup {MapperResult(TRUE, Absent, <<>>, Absent)}

\* ------------------------------------------------------------------ Executor

MaxSteps == 3

\* ExecutionStatus
SUCCESS == "success"
FAILURE == "failure"
ERROR == "error"

\* The fields of ExecutorConfig that the Executor branches on.
Configs ==
    [retry_on_error : BOOLEAN, screenshot_on_error : BOOLEAN, save_screenshots : BOOLEAN]

\* The steps of the plans that are executed: a click, an extraction with the
\* query of the result location, a screenshot.
StepActions == {CLICK, EXTRACT, SCREENSHOT}
StepParams(action) ==
    [query |-> IF action = EXTRACT THEN "valor" ELSE "",
     is_final_result |-> action = EXTRACT]
SamplePlans ==
    UNION {{[k \in 1..n |-> [sequence_id |-> k - 1, action |-> actions[k],
                             params |-> StepParams(actions[k])]] :
               actions \in [1..n -> StepActions]} : n \in 0..MaxSteps}

\* What the calls of one _execute_action do: "none" for a call that is not
\* made. operation is _find_element and the event of the action,
\* extract is the semantic extraction (Tools.extract and what prepares it),
\* state_summary is get_browser_state_summary of the extraction, screenshot is
\* the ScreenshotEvent of the action or of save_screenshots.
Outcomes(action, params, cfg) ==
    {o \in [operation : {"ok", "raises", "none"},
            extract : {"ok", "raises", "none"},
            state_summary : {"ok", "raises", "none"},
            screenshot : {"image", "empty", "raises", "none"}] :
        /\ (o.operation = "none") <=> (action \in {EXTRACT, SCREENSHOT})
        /\ (o.extract = "none") <=> ~(action = EXTRACT /\ params.query # "")
        /\ (o.state_summary = "none") <=>
              ~(action = EXTRACT /\ (params.query = "" \/ o.extract = "raises"))
        /\ (o.screenshot = "none") <=>
              ~(\/ action = SCREENSHOT
                \/ /\ cfg.save_screenshots
                   /\ o.operation # "raises"
                   /\ o.state_summary # "raises")}

\* The call of an attempt that raised out of _execute_action.
Cause(o) ==
    IF o.operation = "raises" THEN "operation"
    ELSE IF o.state_summary = "raises" THEN "state_summary"
    ELSE "screenshot"

Artifact(type, content, metadata) == [type |-> type, content |-> content, metadata |-> metadata]

Metadata(is_final_result, description, extraction_method, error) ==
    [is_final_result |-> is_final_result, description |-> description,
     extraction_method |-> extraction_method, error |-> error]
NoMetadata == Metadata(Absent, Absent, Absent, Absent)

\* _execute_action without the try statement around the semantic extraction:
\* its exception is raised like every other.
_execute_action_NoFallback(browser, action, params, cfg) ==
    LET o == browser.calls
        extracted ==
            IF action # EXTRACT \/ o.state_summary = "raises" THEN <<>>
            ELSE IF params.query = ""
            THEN <<Artifact("text", browser.page,
                            Metadata(Some(FALSE), Absent, Some("full_page"), Absent))>>
            ELSE IF o.extract = "ok"
            THEN <<Artifact("text", browser.page,
                            Metadata(Some(params.is_final_result), Some(params.query),
                                     Some("semantic_query"), Absent))>>
            ELSE <<Artifact("text", browser.page,
                            Metadata(Some(params.is_final_result), Some(params.query),
                                     Some("fallback_full_page"), Some("extract")))>>
        screenshot ==
            IF o.screenshot = "image"
            THEN <<Artifact("screenshot", browser.page, NoMetadata)>>
            ELSE <<>>
    IN [raised |-> "raises" \in {o.operation, o.extract, o.state_summary, o.screenshot},
        artifacts |-> extracted \o screenshot]

\* Executor._execute_action on a browser whose calls do as browser.calls says
\* and whose page is browser.page: the artifacts returned, or raised.
\* An exception of the semantic extraction is caught and the whole page
\* extracted instead; every other exception is raised again.
_execute_action(browser, action, params, cfg) ==
    LET o == browser.calls
        extracted ==
            IF action # EXTRACT \/ o.state_summary = "raises" THEN <<>>
            ELSE IF params.query = ""
            THEN <<Artifact("text", browser.page,
                            Metadata(Some(FALSE), Absent, Some("full_page"), Absent))>>
            ELSE IF o.extract = "ok"
            THEN <<Artifact("text", browser.page,
                            Metadata(Some(params.is_final_result), Some(params.query),
                                     Some("semantic_query"), Absent))>>
            ELSE <<Artifact("text", browser.page,
                            Metadata(Some(params.is_final_result), Some(params.query),
                                     Some("fallback_full_page"), Some("extract")))>>
        screenshot ==
            IF o.screenshot = "image"
            THEN <<Artifact("screenshot", browser.page, NoMetadata)>>
            ELSE <<>>
    IN [raised |-> "raises" \in {o.operation, o.state_summary, o.screenshot},
        artifacts |-> extracted \o screenshot]

\* The step the loop of _execute_steps is at, and its attempt on a browser
\* whose calls do as o says.
CurrentStep == exec_plan[step_index + 1]
Attempt(o) ==
    _execute_action([calls |-> o, page |-> attempts], CurrentStep.action,
                    CurrentStep.params, config[1])
CurrentOutcomes == Outcomes(CurrentStep.action, CurrentStep.params, config[1])

\* BrowserSession.get_browser_state_summary: the state of the page as it is
\* now, or, with cached, the state the session kept from its last query when
\* it has one.
get_browser_state_summary(browser, cached) ==
    IF cached /\ browser.cached_state # Absent
    THEN browser.cached_state[1]
    ELSE browser.page

\* The query of _find_element with cached=True.
FindElementState_Cached(browser) == get_browser_state_summary(browser, TRUE)

\* The state _find_element resolves against: queried with cached=False.
FindElementState(browser) == get_browser_state_summary(browser, FALSE)

\* The state the browser session keeps from the last query that returned.
CachedState == IF resolved = <<>> THEN Absent ELSE resolved[1].cached_state

\* What an attempt of the step whose calls do as o says resolves with: for a
\* Click step the params _inject_params made from step.params, at line 154 or
\* 172, and the state _find_element queried, none when the query itself is
\* what raised. The other steps of the plans executed resolve no element.
Resolution(o) ==
    IF CurrentStep.action # CLICK THEN {resolved}
    ELSE LET state == FindElementState([page |-> attempts, cached_state |-> CachedState])
         IN {Some([sequence_id |-> CurrentStep.sequence_id,
                   params |-> CurrentStep.params,
                   selector_map |-> Some(state),
                   cached_state |-> Some(state)])}
            \cup IF o.operation = "raises"
                 THEN {Some([sequence_id |-> CurrentStep.sequence_id,
                             params |-> CurrentStep.params,
                             selector_map |-> Absent,
                             cached_state |-> CachedState])}
                 ELSE {}

ExecutionResult(execution_status, completed, artifacts, message) ==
    [status |-> execution_status, steps_completed |-> completed,
     total_steps |-> total_steps, artifacts |-> artifacts,
     error_message |-> message]

\* The exception execute_plan ends with when it returns no result.
Raised(exception) == [status |-> exception]

\* browser.stop() at the end of the try block instead of the finally clause.
Finally_StopInTry(outcome) ==
    /\ exec_result' = Some(outcome)
    /\ IF outcome.status = ERROR
       THEN stop_calls' = stop_calls /\ exec_pc' = "ended"
       ELSE stop_calls' = stop_calls + 1 /\ exec_pc' = "stopping"

\* The finally clause of execute_plan: whatever the try block or the except
\* clause ends with, browser.stop() is called and awaited.
Finally(outcome) ==
    /\ exec_result' = Some(outcome)
    /\ stop_calls' = stop_calls + 1
    /\ exec_pc' = "stopping"

\* The loop of _execute_steps before step i: the next step is attempted, or
\* all steps are done and the SUCCESS result is returned.
NextStep(i, completed, artifacts) ==
    /\ step_index' = i
    /\ exec_completed' = completed
    /\ exec_artifacts' = artifacts
    /\ IF i < total_steps
       THEN /\ attempts' = attempts + 1
            /\ exec_pc' = "executing"
            /\ UNCHANGED <<stop_calls, exec_result>>
       ELSE /\ attempts' = attempts
            /\ Finally(ExecutionResult(SUCCESS, completed, artifacts, Absent))

\* A FAILURE result that counts the failing step as completed.
StepFailed_CountsFailed(cause) ==
    Finally(ExecutionResult(FAILURE, exec_completed + 1, exec_artifacts,
                            Some(<<"Step", CurrentStep.sequence_id, "failed", cause>>)))

\* A FAILURE result without the artifacts of the steps before.
StepFailed_NoArtifacts(cause) ==
    Finally(ExecutionResult(FAILURE, exec_completed, <<>>,
                            Some(<<"Step", CurrentStep.sequence_id, "failed", cause>>)))

\* The FAILURE result of _execute_steps for a step whose first attempt raised
\* out of the call named by cause.
StepFailed(cause) ==
    Finally(ExecutionResult(FAILURE, exec_completed, exec_artifacts,
                            Some(<<"Step", CurrentStep.sequence_id, "failed", cause>>)))

\* Executor.execute_plan is called: the profile and the session are made,
\* which may raise before the try statement, and browser.start() is awaited.
execute_plan ==
    /\ exec_pc = "idle"
    /\ \E c \in Configs, steps \in SamplePlans :
          /\ config' = Some(c)
          /\ exec_plan' = steps
          /\ total_steps' = Len(steps)
    /\ \/ /\ exec_pc' = "starting"
          /\ UNCHANGED exec_result
       \/ /\ exec_pc' = "ended"
          /\ exec_result' = Some(Raised("BrowserSession"))
    /\ UNCHANGED <<step_index, exec_completed, exec_artifacts, attempts, calls, stop_calls,
                   resolved>>
    /\ UNCHANGED nonExecutorVars

\* browser.start() returns: _execute_steps begins.
start_returns ==
    /\ exec_pc = "starting"
    /\ NextStep(0, 0, <<>>)
    /\ UNCHANGED <<config, exec_plan, total_steps, calls, resolved>>
    /\ UNCHANGED nonExecutorVars

\* "except Exception" of execute_plan: the error screenshot is asked for if
\* configured, else the ERROR result is returned.
ExceptException ==
    IF config[1].screenshot_on_error
    THEN /\ exec_pc' = "screenshot"
         /\ UNCHANGED <<stop_calls, exec_result>>
    ELSE Finally(ExecutionResult(ERROR, 0, <<>>, Some(<<"start">>)))

\* browser.start() raises.
start_raises ==
    /\ exec_pc = "starting"
    /\ ExceptException
    /\ UNCHANGED <<config, exec_plan, total_steps, step_index, exec_completed,
                   exec_artifacts, attempts, calls, resolved>>
    /\ UNCHANGED nonExecutorVars

\* _inject_params and _execute_action of the step return: the artifacts are
\* added and the loop goes on.
action_returns ==
    /\ exec_pc \in {"executing", "retrying"}
    /\ \E o \in CurrentOutcomes :
          /\ ~Attempt(o).raised
          /\ calls' = Some(o)
          /\ resolved' \in Resolution(o)
          /\ NextStep(step_index + 1, exec_completed + 1,
                      exec_artifacts \o Attempt(o).artifacts)
    /\ UNCHANGED <<config, exec_plan, total_steps>>
    /\ UNCHANGED nonExecutorVars

\* A step whose attempt raised is skipped and the loop goes on.
action_raises_SkipStep ==
    /\ exec_pc = "executing"
    /\ \E o \in CurrentOutcomes :
          /\ Attempt(o).raised
          /\ calls' = Some(o)
          /\ resolved' \in Resolution(o)
    /\ NextStep(step_index + 1, exec_completed, exec_artifacts)
    /\ UNCHANGED <<config, exec_plan, total_steps>>
    /\ UNCHANGED nonExecutorVars

\* The first attempt of the step raises: a pause and one retry if configured,
\* else the FAILURE result.
action_raises ==
    /\ exec_pc = "executing"
    /\ \E o \in CurrentOutcomes :
          /\ Attempt(o).raised
          /\ calls' = Some(o)
          /\ resolved' \in Resolution(o)
          /\ IF config[1].retry_on_error
             THEN /\ exec_pc' = "sleeping"
                  /\ UNCHANGED <<stop_calls, exec_result>>
             ELSE StepFailed(Cause(o))
    /\ UNCHANGED <<config, exec_plan, total_steps, step_index, exec_completed,
                   exec_artifacts, attempts>>
    /\ UNCHANGED nonExecutorVars

\* asyncio.sleep(1) returns: the step is attempted again.
retry ==
    /\ exec_pc = "sleeping"
    /\ exec_pc' = "retrying"
    /\ attempts' = attempts + 1
    /\ UNCHANGED <<config, exec_plan, total_steps, step_index, exec_completed,
                   exec_artifacts, calls, stop_calls, exec_result, resolved>>
    /\ UNCHANGED nonExecutorVars

\* A retry that raises is followed by another pause and another retry.
retry_raises_RetryAgain ==
    /\ exec_pc = "retrying"
    /\ \E o \in CurrentOutcomes :
          /\ Attempt(o).raised
          /\ calls' = Some(o)
          /\ resolved' \in Resolution(o)
    /\ exec_pc' = "sleeping"
    /\ UNCHANGED <<config, exec_plan, total_steps, step_index, exec_completed,
                   exec_artifacts, attempts, stop_calls, exec_result>>
    /\ UNCHANGED nonExecutorVars

\* The retry raises: the step failed permanently, and the message has the
\* exception of the first attempt.
retry_raises ==
    /\ exec_pc = "retrying"
    /\ \E o \in CurrentOutcomes :
          /\ Attempt(o).raised
          /\ calls' = Some(o)
          /\ resolved' \in Resolution(o)
    /\ StepFailed(Cause(calls[1]))
    /\ UNCHANGED <<config, exec_plan, total_steps, step_index, exec_completed,
                   exec_artifacts, attempts>>
    /\ UNCHANGED nonExecutorVars

\* The error screenshot arrives, is empty, or raises (logged): the ERROR
\* result is returned with or without the artifact.
screenshot_done ==
    /\ exec_pc = "screenshot"
    /\ \E artifacts \in {<<>>, <<Artifact("screenshot", "error_screenshot", NoMetadata)>>} :
          Finally(ExecutionResult(ERROR, 0, artifacts, Some(<<"start">>)))
    /\ UNCHANGED <<config, exec_plan, total_steps, step_index, exec_completed,
                   exec_artifacts, attempts, calls, resolved>>
    /\ UNCHANGED nonExecutorVars

\* The task of execute_plan is cancelled while it awaits: CancelledError is
\* no Exception, so only the finally clause runs.
execute_cancelled ==
    /\ exec_pc \in {"starting", "executing", "sleeping", "retrying", "screenshot"}
    /\ Finally(Raised("CancelledError"))
    /\ calls' = <<>>
    /\ UNCHANGED <<config, exec_plan, total_steps, step_index, exec_completed,
                   exec_artifacts, attempts, resolved>>
    /\ UNCHANGED nonExecutorVars

\* browser.stop() returns or raises (logged): execute_plan ends with the
\* result or the exception of the try statement.
stop_done ==
    /\ exec_pc = "stopping"
    /\ exec_pc' = "ended"
    /\ UNCHANGED <<config, exec_plan, total_steps, step_index, exec_completed,
                   exec_artifacts, attempts, calls, stop_calls, exec_result, resolved>>
    /\ UNCHANGED nonExecutorVars

\* ---------------------------------------------------- Executor._find_element

MaxNodes == 2

\* value[:n]
Prefix(value, n) == SubSeq(value, 1, IF Len(value) < n THEN Len(value) ELSE n)

\* The text of a node of the selector map for the similarity search: the
\* first non-empty of the attributes value, innerText, textContent, else
\* node_value; <<>> for none.
NodeTextOf(mapped_node) ==
    LET attributes == mapped_node.attributes
        from_attributes ==
            IF attributes = Absent THEN <<>>
            ELSE IF attributes[1].value # <<>> THEN attributes[1].value
            ELSE IF attributes[1].innerText # <<>> THEN attributes[1].innerText
            ELSE attributes[1].textContent
    IN IF from_attributes # <<>> THEN from_attributes ELSE mapped_node.node_value

\* expected_text in node_text or node_text in expected_text
Similar(expected_text, node_text) ==
    Contains(node_text, expected_text) \/ Contains(expected_text, node_text)

\* The position of the first item of the map that satisfies Matches, 0 for none.
FirstItem(selector_map, Matches(_)) ==
    LET hits == {k \in DOMAIN selector_map : Matches(selector_map[k].node)}
    IN IF hits = {} THEN 0 ELSE CHOOSE k \in hits : \A m \in hits : k <= m

\* The loop of strategy 4 from item k on: best is the position of best_match
\* (0 for None). score = len(expected_text) / max(len(node_text), 1), and
\* score > best_score, compared as fractions of the same numerator.
RECURSIVE BestMatch(_, _, _, _)
\* The loop of strategy 4 with "score >= best_score".
BestMatch_LastOnTies(selector_map, expected_text, k, best) ==
    IF k > Len(selector_map) THEN best
    ELSE LET node_text == NodeTextOf(selector_map[k].node)
             better ==
                 /\ node_text # <<>>
                 /\ Similar(expected_text, node_text)
                 /\ \/ best = 0
                    \/ Len(node_text) <= Len(NodeTextOf(selector_map[best].node))
         IN BestMatch(selector_map, expected_text, k + 1, IF better THEN k ELSE best)

BestMatch(selector_map, expected_text, k, best) ==
    IF k > Len(selector_map) THEN best
    ELSE LET node_text == NodeTextOf(selector_map[k].node)
             better ==
                 /\ node_text # <<>>
                 /\ Similar(expected_text, node_text)
                 /\ \/ best = 0
                    \/ Len(node_text) < Len(NodeTextOf(selector_map[best].node))
         IN BestMatch(selector_map, expected_text, k + 1, IF better THEN k ELSE best)

\* best_score > 0.3
AboveThreshold(expected_text, node_text) == 10 * Len(expected_text) > 3 * Len(node_text)

\* The message of the ValueError raised when no strategy found the element.
NotFoundMessage(params) ==
    <<<<"index", params.index>>>>
    \o (IF params.element_id # "" THEN <<<<"element_id", params.element_id>>>> ELSE <<>>)
    \o (IF params.xpath # <<>> THEN <<<<"xpath", Prefix(params.xpath, 100)>>>> ELSE <<>>)
    \o (IF params.expected_text # <<>>
        THEN <<<<"expected_text", Prefix(params.expected_text, 100)>>>> ELSE <<>>)

\* browser.get_element_by_index: the position in the map of the element at
\* the ordinal index, 0 for None.
get_element_by_index(selector_map, index) ==
    LET at_index == {k \in DOMAIN selector_map : selector_map[k].index = index}
    IN IF at_index = {} THEN 0 ELSE CHOOSE k \in at_index : TRUE

\* _find_element trying the identifier before the index.
FindElement_IdentifierFirst(params, selector_map) ==
    LET by_index == get_element_by_index(selector_map, params.index)
        by_id ==
            IF params.element_id = "" THEN 0
            ELSE FirstItem(selector_map,
                    LAMBDA n : n.attributes # Absent /\ n.attributes[1].id = params.element_id)
        by_xpath ==
            IF params.xpath = <<>> THEN 0
            ELSE FirstItem(selector_map, LAMBDA n : n.xpath = params.xpath)
        best_match ==
            IF params.expected_text = <<>> THEN 0
            ELSE BestMatch(selector_map, params.expected_text, 1, 0)
        by_text ==
            IF best_match # 0
               /\ AboveThreshold(params.expected_text, NodeTextOf(selector_map[best_match].node))
            THEN best_match ELSE 0
        by_tag_class ==
            IF params.tag_name = "" \/ params.element_class = "" THEN 0
            ELSE FirstItem(selector_map,
                    LAMBDA n : /\ n.tag_name = params.tag_name
                               /\ n.attributes # Absent
                               /\ n.attributes[1].class = params.element_class)
        Found(k) == [found |-> Some(selector_map[k].node), error |-> Absent]
    IN IF selector_map = <<>>
       THEN [found |-> Absent, error |-> Some(<<"No DOM state available">>)]
       ELSE IF by_id # 0 THEN Found(by_id)
       ELSE IF by_index # 0 THEN Found(by_index)
       ELSE IF by_xpath # 0 THEN Found(by_xpath)
       ELSE IF by_text # 0 THEN Found(by_text)
       ELSE IF by_tag_class # 0 THEN Found(by_tag_class)
       ELSE [found |-> Absent, error |-> Some(NotFoundMessage(params))]

\* Executor._find_element with the element map selector_map: the node found
\* or the error raised.
FindElement(params, selector_map) ==
    LET by_index == get_element_by_index(selector_map, params.index)
        by_id ==
            IF params.element_id = "" THEN 0
            ELSE FirstItem(selector_map,
                    LAMBDA n : n.attributes # Absent /\ n.attributes[1].id = params.element_id)
        by_xpath ==
            IF params.xpath = <<>> THEN 0
            ELSE FirstItem(selector_map, LAMBDA n : n.xpath = params.xpath)
        best_match ==
            IF params.expected_text = <<>> THEN 0
            ELSE BestMatch(selector_map, params.expected_text, 1, 0)
        by_text ==
            IF best_match # 0
               /\ AboveThreshold(params.expected_text, NodeTextOf(selector_map[best_match].node))
            THEN best_match ELSE 0
        by_tag_class ==
            IF params.tag_name = "" \/ params.element_class = "" THEN 0
            ELSE FirstItem(selector_map,
                    LAMBDA n : /\ n.tag_name = params.tag_name
                               /\ n.attributes # Absent
                               /\ n.attributes[1].class = params.element_class)
        Found(k) == [found |-> Some(selector_map[k].node), error |-> Absent]
    IN IF selector_map = <<>>
       THEN [found |-> Absent, error |-> Some(<<"No DOM state available">>)]
       ELSE IF by_index # 0 THEN Found(by_index)
       ELSE IF by_id # 0 THEN Found(by_id)
       ELSE IF by_xpath # 0 THEN Found(by_xpath)
       ELSE IF by_text # 0 THEN Found(by_text)
       ELSE IF by_tag_class # 0 THEN Found(by_tag_class)
       ELSE [found |-> Absent, error |-> Some(NotFoundMessage(params))]

\* Executor._find_element
_find_element ==
    /\ find_pc = "called"
    /\ LET outcome == FindElement(find_params[1], find_map) IN
          IF outcome.found # Absent
          THEN find_pc' = "returned" /\ find_result' = outcome.found
          ELSE find_pc' = "raised_ValueError" /\ find_result' = outcome.error
    /\ UNCHANGED <<find_params, find_map>>
    /\ UNCHANGED nonResolverVars

\* The nodes of the element maps and the locators of the steps.
TotalXPath == <<"/", "/", "t", "d">>
OtherXPath == <<"/", "/", "p">>
SampleTexts == {<<>>, <<"1", "0">>, <<"1", "0", ",">>, <<"R", "$", "1", "0", ",", "0", "0">>}
Attributes(id, class, innerText) ==
    [id |-> id, class |-> class, value |-> <<>>, innerText |-> innerText, textContent |-> <<>>]
SampleNodes ==
    {[attributes |-> Some(Attributes("total", "sum", <<"1", "0">>)), xpath |-> TotalXPath,
      tag_name |-> "td", node_value |-> <<>>],
     [attributes |-> Some(Attributes("other", "sum", <<"R", "$", "1", "0", ",", "0", "0">>)),
      xpath |-> OtherXPath, tag_name |-> "td", node_value |-> <<>>],
     [attributes |-> Absent, xpath |-> OtherXPath, tag_name |-> "p",
      node_value |-> <<"R", "$", "1", "0", ",", "0", "0">>],
     [attributes |-> Some(Attributes("", "note", <<"R", "$", "1", "0", ",", "0", "0", " ", "B", "R">>)),
      xpath |-> OtherXPath, tag_name |-> "p", node_value |-> <<>>]}
SampleIndexes == 0..MaxNodes
SampleMaps ==
    UNION {{m \in [1..n -> [index : SampleIndexes \ {0}, node : SampleNodes]] :
               \A i, j \in 1..n : m[i].index = m[j].index => i = j} : n \in 0..MaxNodes}
SampleLocators ==
    [index : SampleIndexes, xpath : {<<>>, TotalXPath}, element_id : {"", "total"},
     element_class : {"", "sum"}, tag_name : {"", "td"}, expected_text : SampleTexts]

\* ---------------------------------------------------- Executor._inject_params

MaxPieces == 2

\* The end of the match of \{param:(\w+)\} that starts at position i of
\* value, 0 for no match: \w+ takes the whole run of word characters.
RECURSIVE WordRunEnd(_, _)
WordRunEnd(value, j) ==
    IF j + 1 <= Len(value) /\ value[j + 1] \in WordChars THEN WordRunEnd(value, j + 1) ELSE j
MatchEnd(value, i) ==
    IF ~StartsAt(value, i, ParamOpen) THEN 0
    ELSE LET j == WordRunEnd(value, i + 6)
         IN IF j > i + 6 /\ j + 1 <= Len(value) /\ value[j + 1] = "}" THEN j + 1 ELSE 0

\* re.findall(r'\{param:(\w+)\}', value): the names of the matches from
\* position i on, from left to right.
RECURSIVE findall(_, _)
findall(value, i) ==
    IF i > Len(value) THEN <<>>
    ELSE LET end == MatchEnd(value, i)
         IN IF end = 0 THEN findall(value, i + 1)
            ELSE <<SubSeq(value, i + 7, end - 1)>> \o findall(value, end + 1)

\* value.replace(old, new) from position i on, for a non-empty old.
RECURSIVE replace(_, _, _, _)
replace(value, old, new, i) ==
    IF i > Len(value) THEN <<>>
    ELSE IF StartsAt(value, i, old) THEN new \o replace(value, old, new, i + Len(old))
    ELSE <<value[i]>> \o replace(value, old, new, i + 1)

\* str(n) of a natural number
RECURSIVE Decimal(_)
Decimal(n) ==
    LET digit == <<"0", "1", "2", "3", "4", "5", "6", "7", "8", "9">>[(n % 10) + 1]
    IN IF n < 10 THEN <<digit>> ELSE Decimal(n \div 10) \o <<digit>>

\* The values of user_params: a str or an int.
StrValue(text) == [str |-> text]
IntValue(n) == [int |-> n]
\* str(user_params[param_name])
str(v) == IF "int" \in DOMAIN v THEN Decimal(v.int) ELSE v.str

\* The loop over the matches: the names from the k-th on are replaced in value.
RECURSIVE InjectMatches(_, _, _, _)
InjectMatches(value, matches, user_params, k) ==
    IF k > Len(matches) THEN value
    ELSE LET param_name == matches[k]
         IN InjectMatches(
               IF param_name \in DOMAIN user_params
               THEN replace(value, Placeholder(param_name), str(user_params[param_name]), 1)
               ELSE value,
               matches, user_params, k + 1)

\* Executor._inject_params for the params of an input step: index is not a
\* str, text is.
InjectParams(step_params, user_params) ==
    LET value == step_params.text
    IN IF Contains(value, ParamOpen)
       THEN [step_params EXCEPT !.text = InjectMatches(value, findall(value, 1), user_params, 1)]
       ELSE step_params

\* _inject_params with "injected = step_params": the values are assigned to
\* the dict of the plan's step.
StepParamsAfter_NoCopy(step_params, user_params) == InjectParams(step_params, user_params)

\* step.params after _inject_params: "injected = step_params.copy()", and the
\* values are assigned to the keys of the copy.
StepParamsAfter(step_params, user_params) == step_params

\* Executor._inject_params, called for an attempt of the step
_inject_params ==
    /\ inject_pc \in {"called", "called_again"}
    /\ inject_pc' = IF inject_pc = "called" THEN "returned" ELSE "returned_again"
    /\ injected' = Some(InjectParams(inject_step_params, inject_user_params))
    /\ inject_step_params' = StepParamsAfter(inject_step_params, inject_user_params)
    /\ UNCHANGED inject_user_params
    /\ UNCHANGED nonInjectorVars

\* The pieces of the texts of the steps, the names and the values supplied.
SampleNames == {<<"a">>, <<"b">>, <<"a", "-", "b">>}
SamplePieces == {Placeholder(n) : n \in SampleNames} \cup {<<"x">>, ParamOpen}
RECURSIVE Joined(_)
Joined(pieces) == IF pieces = <<>> THEN <<>> ELSE Head(pieces) \o Joined(Tail(pieces))
SampleStepTexts == {Joined(p) : p \in UNION {[1..n -> SamplePieces] : n \in 0..MaxPieces}}
SampleValues == {StrValue(<<"1">>), StrValue(Placeholder(<<"b">>)), IntValue(42)}
SampleUserParams == UNION {[D -> SampleValues] : D \in SUBSET SampleNames}
SecondUserParams == UNION {[D -> {StrValue(<<"1">>), StrValue(<<"2">>)}] : D \in SUBSET {<<"a">>, <<"b">>}}

\* The step is attempted again: by the retry, or by a later execute_plan of
\* the same plan with the values of that call.
inject_again ==
    /\ inject_pc = "returned"
    /\ inject_pc' = "called_again"
    /\ inject_user_params' \in SecondUserParams
    /\ UNCHANGED <<inject_step_params, injected>>
    /\ UNCHANGED nonInjectorVars

\* ------------------------------------------- ParameterCollector, its calls

\* The calls of collect made on one collector.
MaxCollects == 3
CollectNames == {"cpf", "email"}
CollectXPaths == {None, "//input[@id='cpf']"}
CollectSteps == {0, 1}

\* ParameterCollector.collect called on the collector
collector_collect ==
    /\ collector_count < MaxCollects
    /\ \E name \in CollectNames, value \in InputValues, xpath \in CollectXPaths,
          step_number \in CollectSteps :
          /\ collector_parameters' =
                 collect(collector_parameters, name, value, xpath, step_number)
          /\ collect_call' = Some([name |-> name, value |-> value, xpath |-> xpath,
                                   step_number |-> step_number])
    /\ collector_count' = collector_count + 1
    /\ UNCHANGED nonCollectorVars

\* ---------------------------------------------------------- specifications

SessionInit ==
    /\ sessions = {}
    /\ pending_inputs = [s \in SessionIds |-> 0]
    /\ mapper_results = [s \in SessionIds |-> "none"]
    /\ status = [s \in SessionIds |-> "absent"]
    /\ collector = [s \in SessionIds |-> <<>>]
    /\ current_input_request = [s \in SessionIds |-> <<>>]
    /\ on_input_needed = [s \in SessionIds |-> FALSE]
    /\ steps_completed = [s \in SessionIds |-> 0]
    /\ error_message = [s \in SessionIds |-> None]
    /\ waits = <<>>
    /\ task = [s \in SessionIds |-> "none"]

PlannerIdle ==
    /\ mapper_result = <<>>
    /\ planner_pc = "idle"
    /\ plan = <<>>
    /\ enriched_location = <<>>

ExecutorIdle ==
    /\ exec_pc = "idle"
    /\ config = <<>>
    /\ exec_plan = <<>>
    /\ total_steps = 0
    /\ step_index = 0
    /\ exec_completed = 0
    /\ exec_artifacts = <<>>
    /\ calls = <<>>
    /\ attempts = 0
    /\ stop_calls = 0
    /\ exec_result = <<>>
    /\ resolved = <<>>

ResolverIdle ==
    /\ find_pc = "idle"
    /\ find_params = <<>>
    /\ find_map = <<>>
    /\ find_result = <<>>

InjectorIdle ==
    /\ inject_pc = "idle"
    /\ inject_step_params = <<>>
    /\ inject_user_params = <<>>
    /\ injected = <<>>

\* ParameterCollector.__init__
CollectorInit ==
    /\ collector_parameters = <<>>
    /\ collector_count = 0
    /\ collect_call = <<>>

Init ==
    /\ SessionInit /\ PlannerIdle /\ ExecutorIdle /\ ResolverIdle /\ InjectorIdle
    /\ CollectorInit

ApiCall ==
    \/ \E s \in SessionIds : start_mapping(s)
    \/ \E s \in SessionIds, v \in InputValues : provide_input(s, v)
    \/ \E s \in SessionIds : cancel_session(s)
    \/ \E s \in SessionIds : delete_session(s)

EventLoop ==
    \/ \E s \in SessionIds : run_mapper(s)
    \/ \E w \in WaitIds : timeout(w)
    \/ \E w \in WaitIds : resume(w)

Agent ==
    \/ \E s \in SessionIds, a \in AskArgs : ask_user_for_input(s, a[1], a[2])
    \/ \E s \in SessionIds, saved \in BOOLEAN : agent_finished(s, saved)
    \/ \E s \in SessionIds : agent_raised(s)
    \/ \E s \in SessionIds : task_cancelled(s)
    \/ \E s \in SessionIds : agent_continues(s)

Next == ApiCall \/ EventLoop \/ Agent

Spec == Init /\ [][Next]_vars

\* The same, with callers that issue a request while one is pending.
ConcurrentNext ==
    \/ Next
    \/ \E s \in SessionIds, a \in AskArgs : ask_while_pending(s, a[1], a[2])

ConcurrentSpec == Init /\ [][ConcurrentNext]_vars

\* The event loop runs every coroutine whose future is done, and the timer of
\* wait_for fires if the future stays pending.
LiveSpec ==
    /\ Spec
    /\ \A w \in WaitIds : WF_vars(timeout(w)) /\ WF_vars(resume(w))

\* The Planner alone: create_plan is called with one mapper result.
PlannerInit ==
    /\ SessionInit
    /\ mapper_result \in {Some(r) : r \in MapperResults}
    /\ planner_pc = "called"
    /\ plan = <<>>
    /\ enriched_location = <<>>
    /\ ExecutorIdle
    /\ ResolverIdle
    /\ InjectorIdle
    /\ CollectorInit

PlannerNext == create_plan

\* The Executor alone: one call of execute_plan.
ExecutorNext ==
    \/ execute_plan
    \/ start_returns
    \/ start_raises
    \/ action_returns
    \/ action_raises
    \/ retry
    \/ retry_raises
    \/ screenshot_done
    \/ execute_cancelled
    \/ stop_done

ExecutorSpec == Init /\ [][ExecutorNext]_vars

\* _find_element alone: one call with a locator and an element map.
ResolverInit ==
    /\ SessionInit /\ PlannerIdle /\ ExecutorIdle /\ InjectorIdle /\ CollectorInit
    /\ find_pc = "called"
    /\ find_params \in {Some(p) : p \in SampleLocators}
    /\ find_map \in SampleMaps
    /\ find_result = <<>>

ResolverNext == _find_element

ResolverSpec == ResolverInit /\ [][ResolverNext]_vars

\* _inject_params alone: one call with the params of a step and the values
\* supplied.
InjectorInit ==
    /\ SessionInit /\ PlannerIdle /\ ExecutorIdle /\ ResolverIdle /\ CollectorInit
    /\ inject_pc = "called"
    /\ inject_step_params \in [index : {0}, text : SampleStepTexts]
    /\ inject_user_params \in SampleUserParams
    /\ injected = <<>>

InjectorNext == _inject_params \/ inject_again

InjectorSpec == InjectorInit /\ [][InjectorNext]_vars

\* One ParameterCollector and the collect calls made on it.
CollectorNext == collector_collect

CollectorSpec == Init /\ [][CollectorNext]_vars

PlannerSpec == PlannerInit /\ [][PlannerNext]_vars

\* -------------------------------------------------------------- properties

Awaiting(w) == w \in DOMAIN waits /\ waits[w].pc = "awaiting"
Returns(w) == Awaiting(w) /\ waits'[w].pc = "returned"
RaisesTimeout(w) == Awaiting(w) /\ waits'[w].pc = "raised_timeout"
RaisesCancelled(w) == Awaiting(w) /\ waits'[w].pc = "raised_cancelled"
Ends(w) == Awaiting(w) /\ waits'[w].pc # "awaiting"

\* C1: once a session's status is Completed, Failed or Cancelled, no step
\* changes it.
C1_TerminalAbsorbing ==
    [][\A s \in SessionIds : status[s] \in Terminal => status'[s] = status[s]]_vars

\* C2: a session cancelled while it waits for input (its status is CANCELLED
\* and the request's coroutine is still suspended) delivers no value: the
\* waiter does not return a value, no provide_input is accepted, and neither
\* the cancel nor anything after it changes the collector's parameters.
C2_CancelDeliversNothing ==
    [][\A w \in WaitIds :
          LET s == waits[w].sid IN
          /\ (Awaiting(w) /\ status[s] = WAITING_FOR_INPUT /\ cancel_session(s))
                => collector'[s] = collector[s]
          /\ (Awaiting(w) /\ status[s] = CANCELLED)
                => /\ ~Returns(w)
                   /\ ~(waits[w].fut = "pending" /\ waits'[w].fut = "result")
                   /\ collector'[s] = collector[s]]_vars

\* C3: a request issued while an earlier request of the session is still
\* pending is rejected (its coroutine is not suspended on a future of its own)
\* and the earlier request keeps the session's pending entry.
C3_SecondRequestRejected ==
    [][\A s \in SessionIds :
          LET old == pending_inputs[s]
              new == Len(waits) + 1
          IN (/\ old # 0
              /\ Awaiting(old) /\ waits[old].fut = "pending"
              /\ Len(waits') = new /\ waits'[new].sid = s)
             => /\ waits'[new].pc # "awaiting"
                /\ pending_inputs'[s] = old
                /\ waits'[old] = waits[old]]_vars

\* C4: a value accepted by provide_input is stored in the pending future; the
\* future keeps it until its coroutine runs; request_input then returns that
\* value, and in the state it returns in, the collector holds one entry for the
\* field with the value, the request's xpath and the session's step counter,
\* current_input_request is None and the status is RUNNING.
C4_ValueDelivered ==
    [][/\ \A s \in SessionIds, v \in InputValues :
            (provide_input(s, v) /\ s \in sessions /\ ProvideAccepted(s))
               => /\ waits'[pending_inputs[s]].fut = "result"
                  /\ waits'[pending_inputs[s]].value = v
       /\ \A w \in WaitIds :
            (Awaiting(w) /\ waits[w].fut = "result")
               => /\ waits'[w].pc \in {"awaiting", "returned"}
                  /\ waits'[w].value = waits[w].value
       /\ \A w \in WaitIds :
            Returns(w) =>
               LET s == waits[w].sid
                   p == get_parameter(collector'[s], waits[w].field_name)
               IN /\ waits[w].fut = "result"
                  /\ waits'[w].value = waits[w].value
                  /\ Len(p) = 1
                  /\ p[1].value = waits[w].value
                  /\ p[1].xpath = waits[w].xpath
                  /\ current_input_request[s] # <<>>
                     => p[1].xpath = current_input_request[s][1].xpath
                  /\ p[1].collected_at_step = steps_completed'[s]
                  /\ current_input_request'[s] = <<>>
                  /\ status'[s] = RUNNING]_vars

\* A request_input call has returned the value "v2" for "email".
C4_Witness ==
    \E w \in DOMAIN waits :
        /\ waits[w].pc = "returned" /\ waits[w].value = "v2"
        /\ status[waits[w].sid] = RUNNING
        /\ \E i \in DOMAIN collector[waits[w].sid] :
              /\ collector[waits[w].sid][i].name = "email"
              /\ collector[waits[w].sid][i].value = "v2"
              /\ collector[waits[w].sid][i].xpath = None

\* C5: a request whose wait timed out never returns a value; it raises, and
\* in the state it raises in, the session is FAILED with an error message, the
\* collector is as it was, the session has no pending entry, and no new wait
\* was started in its place; from then on the session stays FAILED.
C5_TimeoutEndsFailed ==
    [][\A w \in WaitIds :
          LET s == waits[w].sid IN
          /\ (Awaiting(w) /\ waits[w].fut = "timeout")
                => waits'[w].pc \in {"awaiting", "raised_timeout"}
          /\ RaisesTimeout(w)
                => /\ waits[w].fut = "timeout"
                   /\ status'[s] = FAILED
                   /\ error_message'[s] # None
                   /\ collector'[s] = collector[s]
                   /\ pending_inputs'[s] = 0
                   /\ Len(waits') = Len(waits)
                   /\ \A u \in DOMAIN waits' :
                         waits'[u].sid = s => waits'[u].pc # "awaiting"
          /\ (w \in DOMAIN waits /\ waits[w].pc = "raised_timeout" /\ status[s] = FAILED)
                => status'[s] = FAILED]_vars

\* C6: every status change follows the documented graph.
DocumentedGraph ==
    {<<"absent", INITIALIZED>>, <<INITIALIZED, RUNNING>>,
     <<RUNNING, WAITING_FOR_INPUT>>, <<WAITING_FOR_INPUT, RUNNING>>,
     <<RUNNING, COMPLETED>>}
    \cup ((SessionStatus \ Terminal) \X {FAILED, CANCELLED})

C6_DocumentedTransitions ==
    [][\A s \in SessionIds :
          status'[s] # status[s] => <<status[s], status'[s]>> \in DocumentedGraph]_vars

\* C7: every request_input call that is suspended eventually ends (by a value,
\* a timeout or a cancel), and in the state it ends in the session is not
\* WAITING_FOR_INPUT.
C7_RequestEnds ==
    /\ \A w \in WaitIds : Awaiting(w) ~> (w \in DOMAIN waits /\ waits[w].pc # "awaiting")
    /\ [][\A w \in WaitIds :
             Ends(w) => status'[waits[w].sid] # WAITING_FOR_INPUT]_vars

\* Requests have ended in each of the three ways.
C7_Witness ==
    /\ Len(waits) >= 2
    /\ \E u, w \in DOMAIN waits :
          /\ waits[u].pc = "raised_cancelled"
          /\ waits[w].pc = "raised_timeout"

\* C8: provide_input, cancel_session and delete_session on session a leave
\* the status, parameters, current request, pending entry and waits of every
\* other session b as they are, and a future only ever receives a value
\* provided under its own session id.
OtherUnchanged(b) ==
    /\ status'[b] = status[b]
    /\ collector'[b] = collector[b]
    /\ current_input_request'[b] = current_input_request[b]
    /\ pending_inputs'[b] = pending_inputs[b]
    /\ (b \in sessions') = (b \in sessions)
    /\ \A w \in DOMAIN waits : waits[w].sid = b => waits'[w] = waits[w]

C8_SessionsIsolated ==
    [][/\ \A a, b \in SessionIds :
            (/\ a # b
             /\ \/ \E v \in InputValues : provide_input(a, v)
                \/ cancel_session(a)
                \/ delete_session(a))
               => OtherUnchanged(b)
       /\ \A w \in WaitIds :
            (Awaiting(w) /\ waits[w].fut = "pending" /\ waits'[w].fut = "result")
               => provide_input(waits[w].sid, waits'[w].value)
       /\ \A w \in WaitIds :
            Returns(w) => waits'[w].value = waits[w].value]_vars

\* Session 1 was answered and session 2 cancelled while both were waiting.
C8_Witness ==
    /\ Len(waits) = 2
    /\ waits[1].sid # waits[2].sid
    /\ \E u, w \in DOMAIN waits :
          /\ waits[u].fut = "result"
          /\ waits[w].fut = "cancelled"

\* The names referenced by a {param:NAME} placeholder in some step. Only the
\* text of an Input step can hold one: the other textual parameters are
\* copied from the trace as they are.
ReferencedParams(steps) ==
    UNION {PlaceholderNames(steps[k].params.text) :
              k \in {k \in DOMAIN steps : steps[k].action = INPUT}}

ListSet(list) == {list[k] : k \in DOMAIN list}

\* C9: the required_params of a compiled plan are exactly the names that
\* occur in a {param:NAME} placeholder of one of its steps.
C9_RequiredParamsAreReferenced ==
    plan # <<>> =>
        ListSet(plan[1].metadata.required_params) = ReferencedParams(plan[1].steps)

\* C10: in a compiled plan, the text of every Input step flagged
\* is_parameterized holds a {param:NAME} placeholder whose NAME is in
\* required_params.
C10_PlaceholderCoverage ==
    plan # <<>> =>
        \A k \in DOMAIN plan[1].steps :
            LET step == plan[1].steps[k] IN
            (step.action = INPUT /\ step.params.is_parameterized)
               => \E name \in PlaceholderNames(step.params.text) :
                     name \in ListSet(plan[1].metadata.required_params)

\* The collected parameters create_plan was called with.
CollectedList == mapper_result[1].metadata.collected_parameters.parameters

InputSteps == {k \in DOMAIN plan[1].steps : plan[1].steps[k].action = INPUT}

\* C11: in a compiled plan, an Input step whose recorded text is the value of
\* a collected parameter has as text exactly {param:NAME}, NAME the name of a
\* collected parameter with that value; an Input step whose recorded text is
\* no collected value and matches no PII pattern keeps the text and is not
\* flagged is_parameterized.
C11_ExactMatchOrVerbatim ==
    plan # <<>> =>
        \A k \in InputSteps :
            LET step == plan[1].steps[k]
                text == step.original_params.text
                matching == {i \in DOMAIN CollectedList : CollectedList[i].value = text}
            IN /\ matching # {} =>
                    \E i \in matching : step.params.text = Placeholder(CollectedList[i].name)
               /\ (matching = {} /\ ~_should_parameterize(text)) =>
                    (step.params.text = text /\ ~step.params.is_parameterized)

\* The recorded operations of the trace create_plan was called with.
TraceActions == HistoryActions(mapper_result[1].raw_history[1].history)

\* The names of the fixed table of canonical action kinds.
CanonicalNames ==
    {"navigate", "click", "input", "select", "scroll", "wait", "extract", "screenshot"}

CanonicalActions == SelectSeq(TraceActions, LAMBDA a : a.name \in CanonicalNames)

\* C12: create_plan raises only for a missing or unsuccessful trace, and the
\* steps of a compiled plan are the recorded operations with a canonical name,
\* in recorded order, with sequence ids 0..n-1: markers and unknown names make
\* no step and take no sequence id.
C12_StepsAreCanonicalActions ==
    /\ planner_pc = "raised_ValueError" =>
          (~mapper_result[1].success \/ mapper_result[1].raw_history = Absent)
    /\ plan # <<>> =>
          /\ Len(plan[1].steps) = Len(CanonicalActions)
          /\ \A k \in DOMAIN plan[1].steps :
                /\ plan[1].steps[k].sequence_id = k - 1
                /\ plan[1].steps[k].original_action = CanonicalActions[k].name
                /\ plan[1].steps[k].original_params = CanonicalActions[k].params
                /\ plan[1].steps[k].action = action_mapping[CanonicalActions[k].name]

\* A plan of two steps compiled from a trace that starts with an unknown name.
C12_Witness ==
    /\ plan # <<>>
    /\ Len(TraceActions) = 3
    /\ TraceActions[1].name \notin CanonicalNames
    /\ Len(plan[1].steps) = 2
    /\ plan[1].steps[2].sequence_id = 1

\* C13: create_plan raises ValueError, and returns no plan, when the trace is
\* absent, has no history items, or belongs to an unsuccessful mapping.
C13_NoPlanWithoutTrace ==
    (planner_pc # "called" /\
        (\/ ~mapper_result[1].success
         \/ mapper_result[1].raw_history = Absent
         \/ mapper_result[1].raw_history[1].history = <<>>))
    => (planner_pc = "raised_ValueError" /\ plan = <<>>)

\* C14: a plan compiled from a trace without any convertible operation has no
\* steps and no required parameters, whatever parameters were collected.
C14_NoStepsNoRequiredParams ==
    (plan # <<>> /\ CanonicalActions = <<>>) =>
        (plan[1].steps = <<>> /\ plan[1].metadata.required_params = <<>>)

\* The word characters in code point order, the order Python compares str by.
CodePoints ==
    <<"0", "1", "2", "3", "4", "5", "6", "7", "8", "9",
      "A", "B", "C", "D", "E", "F", "G", "H", "I", "J", "K", "L", "M",
      "N", "O", "P", "Q", "R", "S", "T", "U", "V", "W", "X", "Y", "Z", "_",
      "a", "b", "c", "d", "e", "f", "g", "h", "i", "j", "k", "l", "m",
      "n", "o", "p", "q", "r", "s", "t", "u", "v", "w", "x", "y", "z">>

Ord(c) == CHOOSE i \in DOMAIN CodePoints : CodePoints[i] = c

\* a < b for two strings of word characters
StrLess(a, b) ==
    \E i \in 1..(Len(a) + 1) :
        /\ i <= Len(b)
        /\ \A k \in 1..(i - 1) : a[k] = b[k]
        /\ i <= Len(a) => Ord(a[i]) < Ord(b[i])

\* C15: the required_params of a compiled plan hold no name twice and are
\* sorted ascending.
C15_RequiredParamsSorted ==
    plan # <<>> =>
        LET required_params == plan[1].metadata.required_params IN
        \A i, j \in DOMAIN required_params :
            i < j => StrLess(required_params[i], required_params[j])

\* C16: compiling is deterministic: the plan create_plan returned is the only
\* plan a compilation of the same trace, collected parameters and result
\* location can return, in the order of required_params and in its steps.
C16_CompilationDeterministic ==
    plan # <<>> =>
        LET result == mapper_result[1]
            steps == _extract_steps(result.raw_history[1],
                                    result.metadata.collected_parameters,
                                    result.metadata.result_location)
        IN /\ plan[1].steps = steps
           /\ \A required_params \in RequiredParams(steps, result.metadata.parameter_names) :
                 required_params = plan[1].metadata.required_params

\* The result location create_plan was called with.
MarkedLocation == mapper_result[1].metadata.result_location

ExtractSteps == {k \in DOMAIN plan[1].steps : plan[1].steps[k].action = EXTRACT}

\* C17: with a result location, every compiled Extract step has the
\* location's description as its query and is flagged as the final result;
\* without one, no Extract step is flagged as final.
C17_ExtractUsesDescription ==
    plan # <<>> =>
        \A k \in ExtractSteps :
            LET params == plan[1].steps[k].params IN
            IF MarkedLocation # Absent
            THEN params.query = MarkedLocation[1].description /\ params.is_final_result
            ELSE ~params.is_final_result

\* The history items of the trace create_plan was called with.
TraceItems == mapper_result[1].raw_history[1].history

\* The history items whose snapshot has the index of the result location.
SnapshotsWithIndex ==
    {i \in DOMAIN TraceItems :
        /\ TraceItems[i].state # Absent
        /\ MarkedLocation[1].index[1] \in DOMAIN TraceItems[i].state[1].selector_map}

\* create_plan compiled a trace with a result location that has an index.
Enriching ==
    /\ planner_pc = "returned"
    /\ MarkedLocation # Absent
    /\ MarkedLocation[1].index # Absent

\* C18: when no snapshot of the trace has the index of the result location,
\* the enriched location is the supplied one, index and description only: no
\* path, text or attribute is added, whatever the recorded operations used.
C18_IndexOnlyWithoutSnapshot ==
    (Enriching /\ SnapshotsWithIndex = {}) => enriched_location = MarkedLocation

\* The first non-empty text of a snapshot entry, '' if it has none.
NodeText(node_info) ==
    IF node_info.value # "" THEN node_info.value
    ELSE IF node_info.innerText # "" THEN node_info.innerText
    ELSE IF node_info.textContent # "" THEN node_info.textContent
    ELSE node_info.node_value

\* "" for an empty attribute value, which is not copied
Copied(value) == IF value = "" THEN Absent ELSE Some(value)

FirstSnapshot == CHOOSE i \in SnapshotsWithIndex : \A j \in SnapshotsWithIndex : i <= j

\* C19: when several snapshots of the trace have the index of the result
\* location, the path, text, id, class and tag of the enriched location are
\* those of the first such snapshot in trace order.
C19_FirstSnapshotWins ==
    (Enriching /\ SnapshotsWithIndex # {}) =>
        LET node_info ==
                TraceItems[FirstSnapshot].state[1].selector_map[MarkedLocation[1].index[1]]
            enriched == enriched_location[1]
        IN /\ enriched.xpath = Some(node_info.xpath)
           /\ enriched.text_content = Copied(NodeText(node_info))
           /\ enriched.element_id = Copied(node_info.attributes[1].id)
           /\ enriched.element_class = Copied(node_info.attributes[1].class)
           /\ enriched.tag_name = node_info.tag_name
           /\ enriched.index = MarkedLocation[1].index
           /\ enriched.description = MarkedLocation[1].description

\* Two snapshots have the index, with different entries, and the location
\* has the path of the first.
C19_Witness ==
    /\ Enriching
    /\ Cardinality(SnapshotsWithIndex) = 2
    /\ TraceItems[1].state[1].selector_map[7] # TraceItems[2].state[1].selector_map[7]
    /\ enriched_location[1].xpath = Some(TraceItems[1].state[1].selector_map[7].xpath)

\* C20: when execute_plan has ended, with a result or with an exception,
\* the browser session it made was stopped by exactly one call of
\* browser.stop(), and no step is attempted once it was called.
C20_StoppedExactlyOnce ==
    /\ [](exec_pc = "ended" /\ exec_result # Some(Raised("BrowserSession")) => stop_calls = 1)
    /\ [][stop_calls > 0 => attempts' = attempts]_vars

\* An execution that ended in FAILURE after a completed step and a retry.
C20_Witness ==
    /\ exec_pc = "ended"
    /\ exec_result[1].status = FAILURE
    /\ exec_result[1].steps_completed = 1
    /\ attempts = 3
    /\ stop_calls = 1

\* An attempt of the current step ends in this step, by raising or returning.
AttemptRaised ==
    exec_pc \in {"executing", "retrying"} /\ calls' # <<>> /\ Attempt(calls'[1]).raised
AttemptReturned ==
    exec_pc \in {"executing", "retrying"} /\ calls' # <<>> /\ ~Attempt(calls'[1]).raised
Cancelled == exec_result = Some(Raised("CancelledError"))

\* execute_plan goes to its finally clause with a result of this status and
\* this steps_completed.
ReturnsResult(execution_status, completed) ==
    /\ exec_pc' = "stopping"
    /\ exec_result'[1].status = execution_status
    /\ exec_result'[1].steps_completed = completed

\* What follows a raised first attempt, the pause, and the retry.
RetryFollows ==
    /\ exec_pc = "sleeping" =>
          \/ Cancelled'
          \/ exec_pc' = "retrying" /\ attempts' = attempts + 1 /\ step_index' = step_index
    /\ (exec_pc = "retrying" /\ AttemptReturned) =>
          /\ exec_completed' = exec_completed + 1
          /\ exec_pc' = "stopping" => ReturnsResult(SUCCESS, exec_completed + 1)
    /\ (exec_pc = "retrying" /\ AttemptRaised) => ReturnsResult(FAILURE, step_index)

\* C21, as claimed: a step whose attempt raises is attempted exactly once
\* more; a retry that returns counts the step as completed and the run can end
\* in SUCCESS; a retry that raises ends the run in FAILURE with
\* steps_completed the number of the steps completed before.
C21_AlwaysRetriedOnce ==
    [][/\ (exec_pc = "executing" /\ AttemptRaised) => exec_pc' = "sleeping"
       /\ RetryFollows]_vars

\* C21, amended: the same when retry_on_error is set; when it is not set the
\* first attempt that raises ends the run in FAILURE, with steps_completed the
\* number of the steps completed before.
C21_RetriedOnceIfConfigured ==
    [][/\ (exec_pc = "executing" /\ AttemptRaised) =>
             IF config[1].retry_on_error
             THEN exec_pc' = "sleeping" /\ attempts' = attempts
             ELSE ReturnsResult(FAILURE, step_index)
       /\ RetryFollows]_vars

\* A run of two steps that ended in SUCCESS after one retry.
C21_Witness ==
    /\ exec_pc = "ended"
    /\ exec_result[1].status = SUCCESS
    /\ exec_result[1].steps_completed = 2
    /\ total_steps = 2
    /\ attempts = 3

\* C22: when a step has failed for good no further step is attempted, and the
\* FAILURE result has the artifacts that the attempts that returned have
\* produced, in the order of the steps, none of an attempt that raised, and an
\* error message with the sequence id of the failing step.
C22_FailureStopsWithArtifacts ==
    /\ [][/\ AttemptReturned =>
                exec_artifacts' = exec_artifacts \o Attempt(calls'[1]).artifacts
          /\ ~AttemptReturned => exec_artifacts' = exec_artifacts
          /\ exec_result # <<>> => attempts' = attempts /\ step_index' = step_index]_vars
    /\ [](exec_result # <<>> /\ exec_result[1].status = FAILURE =>
            /\ exec_result[1].artifacts = exec_artifacts
            /\ exec_result[1].error_message[1][2] = exec_plan[step_index + 1].sequence_id
            /\ \A i, j \in DOMAIN exec_artifacts :
                  i < j => exec_artifacts[i].content <= exec_artifacts[j].content)

\* The third step failed after two steps that produced artifacts.
C22_Witness ==
    /\ exec_pc = "ended"
    /\ exec_result[1].status = FAILURE
    /\ step_index = 2
    /\ Len(exec_result[1].artifacts) >= 3
    /\ exec_result[1].artifacts[1].content < exec_result[1].artifacts[3].content
    /\ exec_result[1].error_message[1][2] = 2

\* C23: execute_plan always ends by returning an ExecutionResult, never by
\* raising; a result of status ERROR, given when the browser session cannot
\* be made or started, has steps_completed 0 and at most one artifact, and no
\* step was attempted.
C23_AlwaysReturnsResult ==
    exec_pc = "ended" =>
        /\ exec_result[1].status \in {SUCCESS, FAILURE, ERROR}
        /\ exec_result[1].status = ERROR =>
              /\ exec_result[1].steps_completed = 0
              /\ attempts = 0
              /\ Len(exec_result[1].artifacts) <= 1

\* C26: steps are attempted one at a time in the order of the plan: an
\* attempt is of the step the loop is at, all steps before it have completed,
\* and the loop moves on by one step, only when an attempt of its step
\* returned.
C26_StepsInPlanOrder ==
    /\ [](exec_pc \in {"executing", "sleeping", "retrying"} =>
            step_index < total_steps /\ exec_completed = step_index)
    /\ [][/\ attempts' # attempts =>
                /\ attempts' = attempts + 1
                /\ exec_pc' \in {"executing", "retrying"}
                /\ exec_completed' = step_index'
          /\ step_index' # step_index =>
                /\ step_index' = step_index + 1
                /\ AttemptReturned]_vars

\* A plan of three steps was executed to the end, one attempt for each step.
C26_Witness ==
    /\ exec_pc = "ended"
    /\ exec_result[1].status = SUCCESS
    /\ total_steps = 3
    /\ step_index = 3
    /\ attempts = 3

\* An attempt of an Extract step ends in this step, its semantic extraction
\* raised and no other call of the attempt did.
ExtractionAloneFailed ==
    /\ exec_pc \in {"executing", "retrying"}
    /\ calls' # <<>>
    /\ CurrentStep.action = EXTRACT
    /\ calls'[1].extract = "raises"
    /\ calls'[1].state_summary = "ok"
    /\ calls'[1].screenshot # "raises"

\* C27: an exception of the semantic extraction does not fail the step: when
\* nothing else in the attempt raises, the step completes, neither a retry nor
\* a FAILURE result follows, and the artifact list gains the fallback artifact
\* of the whole page, whose metadata has the error.
C27_ExtractionFailureNotFatal ==
    [][ExtractionAloneFailed =>
          /\ exec_completed' = exec_completed + 1
          /\ step_index' = step_index + 1
          /\ exec_pc' # "sleeping"
          /\ exec_pc' = "stopping" => exec_result'[1].status = SUCCESS
          /\ Len(exec_artifacts') > Len(exec_artifacts)
          /\ LET artifact == exec_artifacts'[Len(exec_artifacts) + 1] IN
                /\ artifact.type = "text"
                /\ artifact.metadata.extraction_method = Some("fallback_full_page")
                /\ artifact.metadata.error # Absent]_vars

\* A run that ended in SUCCESS with a fallback artifact among its artifacts.
C27_Witness ==
    /\ exec_pc = "ended"
    /\ exec_result[1].status = SUCCESS
    /\ \E i \in DOMAIN exec_result[1].artifacts :
          exec_result[1].artifacts[i].metadata.error = Some("extract")

\* execute_plan has returned an ExecutionResult.
Returned == exec_result # <<>> /\ exec_result[1].status \in {SUCCESS, FAILURE, ERROR}

\* The last attempt of a step raised: the step failed for good.
PermanentFailure ==
    /\ calls # <<>>
    /\ "raises" \in {calls[1].operation, calls[1].state_summary, calls[1].screenshot}

CountersInRange ==
    /\ exec_result[1].total_steps = Len(exec_plan)
    /\ exec_result[1].steps_completed \in 0..exec_result[1].total_steps
    /\ exec_result[1].status = FAILURE =>
          exec_result[1].steps_completed < exec_result[1].total_steps

AllCompleted ==
    /\ exec_result[1].steps_completed = exec_result[1].total_steps
    /\ ~PermanentFailure

\* C28, as claimed: in every returned result total_steps is the number of
\* steps of the plan, steps_completed lies in 0..total_steps, FAILURE has
\* steps_completed < total_steps, and the status is SUCCESS exactly when
\* steps_completed = total_steps and no step failed for good.
C28_CountersConsistent ==
    Returned => (CountersInRange /\ (exec_result[1].status = SUCCESS <=> AllCompleted))

\* C28, amended: the same, the status being SUCCESS exactly when the result is
\* not the ERROR result of a browser that did not start, steps_completed =
\* total_steps and no step failed for good.
C28_CountersConsistentUnlessError ==
    Returned =>
        /\ CountersInRange
        /\ exec_result[1].status = SUCCESS <=>
              (exec_result[1].status # ERROR /\ AllCompleted)

\* A FAILURE result for a plan of three steps of which two completed.
C28_Witness ==
    /\ exec_pc = "ended"
    /\ exec_result[1].status = FAILURE
    /\ exec_result[1].total_steps = 3
    /\ exec_result[1].steps_completed = 2

\* The elements of the map that each strategy of the resolution matches, in
\* the order index, identifier, structural path, text similarity, tag+class.
StrategyHits(params, selector_map) ==
    LET nodes(Matches(_)) ==
            {selector_map[k].node : k \in {m \in DOMAIN selector_map : Matches(selector_map[m])}}
        attribute(item, name) ==
            IF item.node.attributes = Absent THEN Absent ELSE Some(item.node.attributes[1][name])
        text(item) == NodeTextOf(item.node)
    IN << nodes(LAMBDA item : item.index = params.index),
          IF params.element_id = "" THEN {}
          ELSE nodes(LAMBDA item : attribute(item, "id") = Some(params.element_id)),
          IF params.xpath = <<>> THEN {}
          ELSE nodes(LAMBDA item : item.node.xpath = params.xpath),
          IF params.expected_text = <<>> THEN {}
          ELSE nodes(LAMBDA item :
                   /\ text(item) # <<>>
                   /\ \/ Contains(text(item), params.expected_text)
                      \/ Contains(params.expected_text, text(item))
                   /\ 10 * Len(params.expected_text) > 3 * Len(text(item))),
          IF params.tag_name = "" \/ params.element_class = "" THEN {}
          ELSE nodes(LAMBDA item : /\ item.node.tag_name = params.tag_name
                                   /\ attribute(item, "class") = Some(params.element_class)) >>

\* The hits of the earliest strategy that matches, {} when none does.
EarliestHits(params, selector_map) ==
    LET hits == StrategyHits(params, selector_map)
        matching == {i \in DOMAIN hits : hits[i] # {}}
    IN IF matching = {} THEN {}
       ELSE hits[CHOOSE i \in matching : \A j \in matching : i <= j]

\* C24: the element that the resolution returns is a hit of the earliest
\* strategy, in the order index, identifier, structural path, text similarity,
\* tag+class, that matches the current element map, and the resolution fails
\* only when no strategy matches; so when the index and the identifier match
\* different elements, the element at the index is returned.
C24_EarliestStrategyWins ==
    /\ find_pc = "returned" =>
          find_result[1] \in EarliestHits(find_params[1], find_map)
    /\ find_pc = "raised_ValueError" => EarliestHits(find_params[1], find_map) = {}

\* A resolution returned the element at the index while the identifier
\* matches another element.
C24_Witness ==
    /\ find_pc = "returned"
    /\ LET hits == StrategyHits(find_params[1], find_map) IN
          /\ hits[2] # {}
          /\ find_result[1] \in hits[1]
          /\ find_result[1] \notin hits[2]

\* The error of a failed resolution has a line for the strategy with its
\* query value.
ErrorNames(strategy, query) ==
    \E k \in DOMAIN find_result[1] :
       /\ Len(find_result[1][k]) = 2
       /\ find_result[1][k][1] = strategy
       /\ find_result[1][k][2] = query

\* C30: when the resolution finds no match in the element map, the error has
\* a line with the query value of every strategy that was attempted: the
\* index, the identifier, the structural path, the expected text and the tag
\* with the class, each when it was tried.
C30_ErrorNamesEveryStrategy ==
    find_pc = "raised_ValueError" /\ find_map # <<>> =>
        LET params == find_params[1] IN
           /\ ErrorNames("index", params.index)
           /\ params.element_id # "" => ErrorNames("element_id", params.element_id)
           /\ params.xpath # <<>> => ErrorNames("xpath", params.xpath)
           /\ params.expected_text # <<>> => ErrorNames("expected_text", params.expected_text)
           /\ params.tag_name # "" /\ params.element_class # "" =>
                 ErrorNames("tag+class", <<params.tag_name, params.element_class>>)

\* The text with every {param:NAME} occurrence from position i on whose NAME
\* is supplied replaced by the value supplied, and every other character kept.
RECURSIVE Substituted(_, _, _)
Substituted(text, user_params, i) ==
    IF i > Len(text) THEN <<>>
    ELSE LET here == {n \in DOMAIN user_params : StartsAt(text, i, Placeholder(n))}
         IN IF here = {} THEN <<text[i]>> \o Substituted(text, user_params, i + 1)
            ELSE LET n == CHOOSE n \in here : TRUE
                 IN str(user_params[n])
                    \o Substituted(text, user_params, i + Len(Placeholder(n)))

\* C25: parameter injection returns the step's parameters with every
\* {param:NAME} occurrence whose NAME is a key of the supplied values replaced
\* by that value and every other occurrence left as the literal placeholder
\* text; with no value supplied the injected parameters are the step's
\* parameters.
C25_InjectsSuppliedNames ==
    inject_pc = "returned" =>
        /\ injected[1] = [inject_step_params EXCEPT
                             !.text = Substituted(@, inject_user_params, 1)]
        /\ DOMAIN inject_user_params = {} => injected[1] = inject_step_params

\* C29: a collect call for a name that is already collected overwrites only
\* the value of its entry, the last write winning: the number of entries and
\* the names at the positions of list() stay as they are and every other
\* field of every entry is left alone; a new name goes to the end of list(), so
\* that list() is in order of first insertion.
C29_RecollectOverwritesValueOnly ==
    [][collector_count' # collector_count =>
         LET call == collect_call'[1]
             before == list_parameters(collector_parameters)
             after == list_parameters(collector_parameters')
         IN IF \E i \in DOMAIN before : before[i].name = call.name
            THEN /\ Len(after) = Len(before)
                 /\ \A i \in DOMAIN before :
                       after[i] = IF before[i].name = call.name
                                  THEN [before[i] EXCEPT !.value = call.value]
                                  ELSE before[i]
            ELSE /\ Len(after) = Len(before) + 1
                 /\ SubSeq(after, 1, Len(before)) = before
                 /\ after[Len(after)].name = call.name
                 /\ after[Len(after)].value = call.value]_vars

\* C37: the page action of a step is performed a second time only if its
\* first performance raised: the retry of a step never performs again an
\* action that succeeded on the page in the first attempt, also when it was
\* the screenshot after the action that raised.
C37_SucceededActionNotRepeated ==
    [][/\ exec_pc = "retrying"
       /\ calls' # <<>>
       /\ calls'[1].operation # "none"
       => calls[1].operation = "raises"]_vars

\* The elements of the map that have a text which contains the expected text
\* or is contained in it, by their positions in the map.
TextCandidates(expected_text, selector_map) ==
    {k \in DOMAIN selector_map :
        LET text == NodeTextOf(selector_map[k].node)
        IN /\ text # <<>>
           /\ Contains(text, expected_text) \/ Contains(expected_text, text)}

\* |expected| / max(|candidate|, 1) of candidate a is greater than that of b,
\* and is greater than 0.3.
Longest(n, m) == IF n > m THEN n ELSE m
CandidateLen(selector_map, k) == Longest(Len(NodeTextOf(selector_map[k].node)), 1)
ScoreGreater(expected_text, selector_map, a, b) ==
    Len(expected_text) * CandidateLen(selector_map, b)
        > Len(expected_text) * CandidateLen(selector_map, a)
ScoreAccepted(expected_text, selector_map, k) ==
    10 * Len(expected_text) > 3 * CandidateLen(selector_map, k)

\* The candidates of the highest score.
BestCandidates(expected_text, selector_map) ==
    {k \in TextCandidates(expected_text, selector_map) :
        \A m \in TextCandidates(expected_text, selector_map) :
           ~ScoreGreater(expected_text, selector_map, m, k)}

\* A resolution ended in which neither the index nor the identifier nor the
\* structural path matched and an expected text was given.
TextStrategyTried ==
    /\ find_pc \in {"returned", "raised_ValueError"}
    /\ find_map # <<>>
    /\ find_params[1].expected_text # <<>>
    /\ \A i \in 1..3 : StrategyHits(find_params[1], find_map)[i] = {}

\* C33: the text-similarity strategy returns the first of the candidates of
\* the highest score |expected| / max(|candidate|, 1), the candidates being
\* the elements whose text contains or is contained in the expected text, if
\* that score is greater than 0.3; else it yields no hit, and the resolution
\* goes on with the tag and the class.
C33_BestScoringCandidate ==
    TextStrategyTried =>
        LET expected_text == find_params[1].expected_text
            best == BestCandidates(expected_text, find_map)
            first == CHOOSE k \in best : \A m \in best : k <= m
        IN IF best # {} /\ ScoreAccepted(expected_text, find_map, first)
           THEN find_pc = "returned" /\ find_result[1] = find_map[first].node
           ELSE find_pc = "returned" =>
                   find_result[1] \in StrategyHits(find_params[1], find_map)[5]

\* The text strategy returned the first of two different elements of the
\* same, highest score.
C33_Witness ==
    /\ TextStrategyTried
    /\ find_pc = "returned"
    /\ LET best == BestCandidates(find_params[1].expected_text, find_map) IN
          /\ \E k, m \in best : k < m /\ find_map[k].node # find_map[m].node
                                /\ find_result[1] = find_map[k].node
          /\ \A k \in best : ScoreAccepted(find_params[1].expected_text, find_map, k)

\* The text after one pass from position i on: every placeholder that the
\* pattern finds in the text itself and whose name is supplied is replaced by
\* the value, which is inserted verbatim and not scanned.
RECURSIVE SinglePass(_, _, _)
SinglePass(text, user_params, i) ==
    IF i > Len(text) THEN <<>>
    ELSE LET end == MatchEnd(text, i)
         IN IF end # 0 /\ SubSeq(text, i + 7, end - 1) \in DOMAIN user_params
            THEN str(user_params[SubSeq(text, i + 7, end - 1)])
                 \o SinglePass(text, user_params, end + 1)
            ELSE <<text[i]>> \o SinglePass(text, user_params, i + 1)

\* C38: parameter injection is single-pass: a supplied value is inserted
\* verbatim and never itself scanned for placeholders, so the injected text is
\* the step's text with the placeholders that stand in it replaced, whatever
\* placeholder text the values contain.
C38_InjectionIsSinglePass ==
    inject_pc = "returned" =>
        injected[1].text = SinglePass(inject_step_params.text, inject_user_params, 1)

OpenRequests(s) ==
    {w \in DOMAIN waits : waits[w].sid = s /\ Awaiting(w) /\ waits[w].fut = "pending"}

\* C34: provide_input for a session of the registry is accepted (returns
\* True) exactly when the session has a request that is not yet answered,
\* cancelled or timed out, and then that request's future holds the value and
\* its waiter returns exactly it; in every other case the call changes
\* nothing. A future that holds a value keeps it, so a request accepts one
\* value at most, and a new request starts without a value.
C34_ProvideAcceptedOnce ==
    /\ [](\A s \in sessions : ProvideAccepted(s) <=> OpenRequests(s) # {})
    /\ [][/\ \A s \in SessionIds, v \in InputValues :
               provide_input(s, v) =>
                  IF s \in sessions /\ OpenRequests(s) # {}
                  THEN \E w \in OpenRequests(s) :
                          waits' = [waits EXCEPT ![w].fut = "result", ![w].value = v]
                  ELSE UNCHANGED vars
          /\ \A w \in DOMAIN waits :
               /\ waits[w].fut = "result" =>
                     waits'[w].fut = "result" /\ waits'[w].value = waits[w].value
               /\ Returns(w) => waits[w].fut = "result"
          /\ Len(waits') > Len(waits) => waits'[Len(waits')].value = None]_vars

\* A request of a session returned the value provided for it and the next
\* request of the same session is waiting for its own.
C34_Witness ==
    /\ Len(waits) = 2
    /\ waits[1].sid = waits[2].sid
    /\ waits[1].pc = "returned" /\ waits[1].value = "v1"
    /\ waits[2].pc = "awaiting" /\ waits[2].fut = "pending" /\ waits[2].value = None
    /\ waits[2].sid \in sessions

\* C35: a session has a current input request only while its status is
\* WAITING_FOR_INPUT.
C35_RequestOnlyWhileWaiting ==
    \A s \in SessionIds :
        current_input_request[s] # <<>> => status[s] = WAITING_FOR_INPUT

\* C36: every suspended waiter whose future is still pending is the pending
\* entry of its session id, and the end of one wait leaves the pending entry of
\* another wait as it is.
C36_WaiterStaysReachable ==
    /\ [](\A w \in DOMAIN waits :
             Awaiting(w) /\ waits[w].fut = "pending" => pending_inputs[waits[w].sid] = w)
    /\ [][\A w \in DOMAIN waits :
             Ends(w) /\ pending_inputs[waits[w].sid] # w
                => pending_inputs'[waits[w].sid] = pending_inputs[waits[w].sid]]_vars

\* The parameters carry the detail of the enriched location under the key.
Carries(params, key, detail) ==
    detail # Absent /\ key \in DOMAIN params /\ params[key] = detail[1]

\* C32: when the result location was enriched with a structural path, a text
\* sample or an identifier found in the trace, the parameters of every
\* compiled Extract step carry one of these details (xpath, expected_text or
\* element_id), so that its replay does not depend on the index alone.
C32_ExtractCarriesLocator ==
    (/\ planner_pc = "returned"
     /\ enriched_location # Absent
     /\ enriched_location # MarkedLocation) =>
        \A k \in ExtractSteps :
            LET params == plan[1].steps[k].params
                enriched == enriched_location[1]
            IN \/ Carries(params, "xpath", enriched.xpath)
               \/ Carries(params, "expected_text", enriched.text_content)
               \/ Carries(params, "element_id", enriched.element_id)

\* An attempt of a Click step is made between the two states.
ClickAttempt ==
    /\ exec_pc \in {"executing", "retrying"}
    /\ CurrentStep.action = CLICK
    /\ calls' # <<>>

====
